---- MODULE Spec2Model ----
(***************************************************************************)
(* Model of the hospital_federator federation substrate: the SQLite ledger *)
(* (OutboxDB), the signed-push client (FederationClient), the sending      *)
(* loops of the GUI (send_job / resend work) and the embedded receiver.    *)
(*                                                                         *)
(* Tables are sets of rows (records named after the SQL columns); the      *)
(* PRIMARY KEY / UNIQUE constraints are not built into the data type but   *)
(* enforced by the insert operators, as SQLite enforces them.              *)
(* A nullable column holds None (<<>>) or Some(v) (<<v>>).                 *)
(***************************************************************************)
EXTENDS Integers, Sequences, FiniteSets, TLC

VARIABLES
    outbox_jobs,    \* table outbox_jobs (committed rows)
    deliveries,     \* table deliveries (committed rows)
    inbox_events,   \* table inbox_events (committed rows)
    inbox_pushes,   \* table inbox_pushes (committed rows)
    now,            \* the clock read by now_ts()
    uuid,           \* number of uuid4() values drawn so far
    ret,            \* the last completed call: its operation, arguments, result
    lock,           \* OutboxDB._lock: None or Some(thread)
    txn,            \* uncommitted writes of the connection that holds the lock
    threads,        \* store-level threads: position and locals of each
    signing,        \* the SigningConfig the FederationClient was built with
    flows,          \* sending threads (send_job / resend work): position and locals
    completed,      \* history, per (job, target): pushes completed, threads shared it
    receiver        \* the EmbeddedReceiver's configuration as start() captured it

vars == <<outbox_jobs, deliveries, inbox_events, inbox_pushes, now, uuid, ret,
          lock, txn, threads, signing, flows, completed, receiver>>

(***************************************************************************)
(* Bounds of the model.                                                    *)
(***************************************************************************)
MaxTime == 3        \* inbox calls and requests per behaviour (the clock stops there)
MaxCalls == 3       \* outbox calls per behaviour
MaxJobs == 2        \* add_job calls per behaviour of the concurrent specifications
MaxTargets == 2     \* length of a target list handed to add_job
MaxBatch == 2       \* entries of one add_inbox_events batch / one push body
MaxAttempts == 1    \* attempts values a caller hands to update_delivery
MaxFlows == 3       \* sending threads started per behaviour
MaxSubmits == 1     \* jobs submitted per behaviour of the sending specification
MaxPushes == 3      \* push_events calls that return, per behaviour
MaxPosts == 2       \* requests per behaviour of the request-handling specification
MaxChars == 2       \* characters of a document or summary text
MaxSourceChars == 1 \* characters of a source label, beyond a fixed beginning

None == <<>>
Some(v) == <<v>>

(***************************************************************************)
(* Configuration: the peers of the YAML file (config.py load_config).      *)
(***************************************************************************)
PeerIds == {"a", "b", "c"}
SelfPeerId == "a"

\* A Peer object: the model keeps peer_id and url (name and tls do not reach the store).
Peer(pid, url) == [peer_id |-> pid, url |-> url]

\* peers_by_id of the running node: one Peer per configured id.
PeersById == [p \in PeerIds |-> Peer(p, "https://" \o p)]

\* The Peer objects a target list is built from: the peers other than self.
PeerObjs == {PeersById[p] : p \in PeerIds \ {SelfPeerId}}

\* Rank of a peer id in SQLite's text ordering (ORDER BY target_peer_id).
PeerRank(pid) == CASE pid = "a" -> 1 [] pid = "b" -> 2 [] pid = "c" -> 3 [] OTHER -> 4

SeqsUpTo(S, n) == UNION {[1..k -> S] : k \in 0..n}

Range(s) == {s[i] : i \in DOMAIN s}

\* json.dumps / json.loads of a parsed JSON value: the text is tagged, and only
\* loading gives the value back.
JsonDumps(v) == <<"json", v>>
JsonLoads(t) == t[2]

(***************************************************************************)
(* Outbox: add_job, update_delivery and the read accessors.                *)
(***************************************************************************)

JobRow(job_id, created_at, origin, label, events, targets) ==
    [job_id |-> job_id, created_at |-> created_at, origin_peer_id |-> origin,
     label |-> label, events_json |-> JsonDumps(events),
     targets_json |-> [i \in DOMAIN targets |-> targets[i].peer_id]]

\* Faulty variant: the attempts column starts at 1.
DeliveryRowFromOne(delivery_id, job_id, t) ==
    [delivery_id |-> delivery_id, job_id |-> job_id, target_peer_id |-> t.peer_id,
     target_url |-> t.url, status |-> "PENDING", attempts |-> 1,
     last_error |-> None, last_attempt_at |-> None, last_http_status |-> None]

\* The row add_job inserts for one target: PENDING, attempts 0, the rest NULL.
DeliveryRow(delivery_id, job_id, t) ==
    [delivery_id |-> delivery_id, job_id |-> job_id, target_peer_id |-> t.peer_id,
     target_url |-> t.url, status |-> "PENDING", attempts |-> 0,
     last_error |-> None, last_attempt_at |-> None, last_http_status |-> None]

\* Two delivery rows that SQLite cannot hold together (PRIMARY KEY, UNIQUE).
DeliveryConflict(r, row) ==
    \/ r.delivery_id = row.delivery_id
    \/ (r.job_id = row.job_id /\ r.target_peer_id = row.target_peer_id)

\* Faulty variant: a plain INSERT into a table that lacks the UNIQUE constraint.
InsertDeliveryNoUnique(tbl, row) == tbl \cup {row}

\* INSERT OR REPLACE INTO deliveries: conflicting rows are deleted first.
InsertOrReplaceDelivery(tbl, row) ==
    {r \in tbl : ~DeliveryConflict(r, row)} \cup {row}

\* The loop of add_job over its targets, delivery ids drawn from uuid4 in turn.
RECURSIVE InsertDeliveries(_, _, _, _)
InsertDeliveries(tbl, job_id, targets, first_id) ==
    IF targets = <<>> THEN tbl
    ELSE InsertDeliveries(
            InsertOrReplaceDelivery(tbl, DeliveryRow(first_id, job_id, Head(targets))),
            job_id, Tail(targets), first_id + 1)

\* Faulty variant: the WHERE clause has no status condition.
PendingOrFailedAnyStatus(tbl, job_id) ==
    {[target_peer_id |-> r.target_peer_id, target_url |-> r.target_url,
      status |-> r.status, attempts |-> r.attempts] :
        r \in {x \in tbl : x.job_id = job_id}}

\* get_pending_or_failed_targets: the rows of the job that are PENDING or FAILED
\* (no ORDER BY: the order of the result is not part of the contract).
PendingOrFailed(tbl, job_id) ==
    {[target_peer_id |-> r.target_peer_id, target_url |-> r.target_url,
      status |-> r.status, attempts |-> r.attempts] :
        r \in {x \in tbl : x.job_id = job_id /\ x.status \in {"PENDING", "FAILED"}}}

get_pending_or_failed_targets(job_id) == PendingOrFailed(deliveries, job_id)

\* list_deliveries: the job's rows, ORDER BY target_peer_id.
RECURSIVE SortByTarget(_)
SortByTarget(rows) ==
    IF rows = {} THEN <<>>
    ELSE LET m == CHOOSE r \in rows :
                    \A o \in rows : PeerRank(r.target_peer_id) <= PeerRank(o.target_peer_id)
         IN <<m>> \o SortByTarget(rows \ {m})

list_deliveries(job_id) ==
    LET rows == {[target_peer_id |-> r.target_peer_id, target_url |-> r.target_url,
                  status |-> r.status, attempts |-> r.attempts,
                  last_error |-> r.last_error, last_attempt_at |-> r.last_attempt_at,
                  last_http_status |-> r.last_http_status] :
                    r \in {x \in deliveries : x.job_id = job_id}}
    IN SortByTarget(rows)

\* Faulty variant: the events are handed out under event_ids made anew.
get_job_events_renewed(job_id) ==
    IF \E j \in outbox_jobs : j.job_id = job_id
    THEN LET evs == JsonLoads((CHOOSE j \in outbox_jobs : j.job_id = job_id).events_json)
         IN [i \in DOMAIN evs |-> [evs[i] EXCEPT !.event_id = <<"n">> \o @]]
    ELSE <<>>

\* get_job_events: the stored list, or [] for an unknown job.
get_job_events(job_id) ==
    IF \E j \in outbox_jobs : j.job_id = job_id
    THEN JsonLoads((CHOOSE j \in outbox_jobs : j.job_id = job_id).events_json)
    ELSE <<>>

\* Faulty variant: the SET list leaves the status column out.
UpdateRowsKeepStatus(tbl, job_id, target, status, attempts, last_error, at, http) ==
    {IF r.job_id = job_id /\ r.target_peer_id = target
     THEN [r EXCEPT !.attempts = attempts, !.last_error = last_error,
                    !.last_attempt_at = Some(at), !.last_http_status = http]
     ELSE r : r \in tbl}

\* Faulty variant: the store counts the attempt itself instead of writing the
\* number it is given.
UpdateRowsCounting(tbl, job_id, target, status, attempts, last_error, at, http) ==
    {IF r.job_id = job_id /\ r.target_peer_id = target
     THEN [r EXCEPT !.status = status, !.attempts = @ + 1, !.last_error = last_error,
                    !.last_attempt_at = Some(at), !.last_http_status = http]
     ELSE r : r \in tbl}

\* UPDATE deliveries SET ... WHERE job_id=? AND target_peer_id=?
UpdateRows(tbl, job_id, target, status, attempts, last_error, at, http) ==
    {IF r.job_id = job_id /\ r.target_peer_id = target
     THEN [r EXCEPT !.status = status, !.attempts = attempts, !.last_error = last_error,
                    !.last_attempt_at = Some(at), !.last_http_status = http]
     ELSE r : r \in tbl}

(***************************************************************************)
(* Inbox: add_inbox_events, add_inbox_push and the read accessors.         *)
(*                                                                         *)
(* A text is a sequence of characters, so that str.strip() is computed and *)
(* not assumed.  An entry of an events list is what json.loads yields for  *)
(* it: an object (with its event_id, event_type and payload members) or    *)
(* some other JSON value.                                                  *)
(***************************************************************************)

\* str.strip(): leading and trailing blanks removed.
RECURSIVE LStrip(_)
LStrip(s) == IF s # <<>> /\ Head(s) = " " THEN LStrip(Tail(s)) ELSE s

RECURSIVE RStrip(_)
RStrip(s) == IF s # <<>> /\ s[Len(s)] = " " THEN RStrip(SubSeq(s, 1, Len(s) - 1)) ELSE s

Strip(s) == RStrip(LStrip(s))

\* payload member of an event: absent (or falsy), an object, or a non-empty
\* value that is not an object.
PayloadAbsent == [kind |-> "absent", doc_id |-> None]
PayloadObj(doc) == [kind |-> "obj", doc_id |-> Some(doc)]
PayloadText == [kind |-> "text", doc_id |-> None]

EventObj(id, type, payload) ==
    [isdict |-> TRUE, event_id |-> id, event_type |-> type, payload |-> payload]

\* A JSON value that is not an object (a number, a string, a list).
NonObjEntry == [isdict |-> FALSE, event_id |-> <<>>, event_type |-> <<>>, payload |-> PayloadAbsent]

\* The entries the model draws batches from.
Entries ==
    { EventObj(<<"a">>, <<"D">>, PayloadObj("d1")),
      EventObj(<<" ", "a">>, <<>>, PayloadObj("d2")),
      EventObj(<<"b">>, <<"D">>, PayloadAbsent),
      EventObj(<<"c">>, <<"D">>, PayloadText),
      EventObj(<<" ">>, <<"D">>, PayloadObj("d1")),
      NonObjEntry }

Batches == SeqsUpTo(Entries, MaxBatch)

\* Faulty variant: payload_json holds the payload member, not the event.
InboxRowPayloadOnly(ev, at, from_peer_id) ==
    [event_id |-> Strip(ev.event_id), received_at |-> at, from_peer_id |-> from_peer_id,
     event_type |-> IF Strip(ev.event_type) = <<>> THEN <<"Unknown">> ELSE Strip(ev.event_type),
     doc_id |-> ev.payload.doc_id, payload_json |-> JsonDumps(ev.payload)]

\* The row add_inbox_events builds for one event (the columns the model keeps).
InboxRow(ev, at, from_peer_id) ==
    [event_id |-> Strip(ev.event_id), received_at |-> at, from_peer_id |-> from_peer_id,
     event_type |-> IF Strip(ev.event_type) = <<>> THEN <<"Unknown">> ELSE Strip(ev.event_type),
     doc_id |-> ev.payload.doc_id, payload_json |-> JsonDumps(ev)]

HasEvent(tbl, event_id) == \E r \in tbl : r.event_id = event_id

\* Faulty variant: INSERT OR REPLACE: the new row takes the place of the stored one.
InsertOrReplaceEvent(tbl, row) == {r \in tbl : r.event_id # row.event_id} \cup {row}

\* INSERT OR IGNORE INTO inbox_events: a row whose event_id exists is skipped.
InsertOrIgnoreEvent(tbl, row) == IF HasEvent(tbl, row.event_id) THEN tbl ELSE tbl \cup {row}

\* Faulty variant: every executed INSERT is counted, skipped or not.
ChangesPerStatement(tbl, row) == 1

\* What one INSERT OR IGNORE adds to conn.total_changes.
InsertChanges(tbl, row) == IF HasEvent(tbl, row.event_id) THEN 0 ELSE 1

\* An entry the loop passes over: not an object, or no event_id after strip().
EntrySkipped(ev) == ~ev.isdict \/ Strip(ev.event_id) = <<>>

\* payload.get(...) on a value that is not an object raises AttributeError.
EntryRaises(ev) == ev.payload.kind = "text"

\* The loop of add_inbox_events inside its transaction: the table, the count
\* of changes and whether an exception left the loop.
RECURSIVE InboxLoop(_, _, _, _, _)
InboxLoop(tbl, changes, events, at, from_peer_id) ==
    IF events = <<>> THEN [tbl |-> tbl, changes |-> changes, raised |-> FALSE]
    ELSE LET ev == Head(events) IN
         IF EntrySkipped(ev) THEN InboxLoop(tbl, changes, Tail(events), at, from_peer_id)
         ELSE IF EntryRaises(ev) THEN [tbl |-> tbl, changes |-> changes, raised |-> TRUE]
         ELSE LET row == InboxRow(ev, at, from_peer_id) IN
              InboxLoop(InsertOrIgnoreEvent(tbl, row), changes + InsertChanges(tbl, row),
                        Tail(events), at, from_peer_id)

\* add_inbox_events as one call: the table afterwards and the outcome.  An
\* exception closes the connection without commit, which rolls the batch back.
AddInboxEventsCall(tbl, events, at, from_peer_id) ==
    IF events = <<>> THEN [tbl |-> tbl, raised |-> FALSE, value |-> 0]
    ELSE LET r == InboxLoop(tbl, 0, events, at, from_peer_id) IN
         IF r.raised THEN [tbl |-> tbl, raised |-> TRUE, value |-> 0]
         ELSE [tbl |-> r.tbl, raised |-> FALSE, value |-> r.changes]

\* The row add_inbox_push inserts.
PushRow(push_id, at, from_peer_id, remote_addr, raw_bytes_len, events_count, body_obj) ==
    [push_id |-> push_id, received_at |-> at, from_peer_id |-> from_peer_id,
     remote_addr |-> remote_addr, bytes_len |-> raw_bytes_len,
     events_count |-> events_count, body_json |-> JsonDumps(body_obj)]

\* get_inbox_event_payload: the stored text, or None.
get_inbox_event_payload(event_id) ==
    IF HasEvent(inbox_events, event_id)
    THEN Some((CHOOSE r \in inbox_events : r.event_id = event_id).payload_json)
    ELSE None

\* list_inbox_events: the rows (the model does not order them).
list_inbox_events == inbox_events

(***************************************************************************)
(* Embedded receiver: Handler.do_POST.                                     *)
(***************************************************************************)

\* allowed_peer_ids as cli.main computes it: every configured peer but self.
AllowedPeerIds == PeerIds \ {SelfPeerId}

\* hmac.new(key, body, sha256).hexdigest(): an ideal MAC, equal exactly when
\* key and body are.
HmacHex(key, raw) == <<"hmac-sha256", key, raw>>

\* str.lower() on the algorithm names the model sends.
Lower(alg) == IF alg = "HMAC-SHA256" THEN "hmac-sha256" ELSE alg

\* Request bodies as they arrive: no bytes at all, bytes that are not JSON,
\* a JSON value that is not an object, or an object whose events member is
\* absent, a list, or another value (falsy such as 0, or truthy such as "x").
RawEmpty == [kind |-> "empty", ev |-> "absent", events |-> <<>>]
RawBadJson == [kind |-> "badjson", ev |-> "absent", events |-> <<>>]
RawNonObj == [kind |-> "nonobj", ev |-> "absent", events |-> <<>>]
RawObj(ev, events) == [kind |-> "obj", ev |-> ev, events |-> events]

RawBodies ==
    {RawEmpty, RawBadJson, RawNonObj, RawObj("absent", <<>>), RawObj("falsy", <<>>),
     RawObj("truthy", <<>>)} \cup {RawObj("list", b) : b \in Batches}

\* len(raw): the bytes of the body as sent.
RECURSIVE EntriesLen(_)
EntriesLen(events) ==
    IF events = <<>> THEN 0 ELSE 1 + Len(Head(events).event_id) + EntriesLen(Tail(events))

ByteLen(raw) == IF raw.kind = "empty" THEN 0 ELSE 2 + EntriesLen(raw.events)

\* obj.get("events") or []
EventsOf(raw) == IF raw.ev = "list" THEN raw.events ELSE <<>>

Reply(code, pushes, events) == [code |-> code, pushes |-> pushes, events |-> events]

\* Faulty variant: the rows are tagged with the common name the request
\* presents, whether or not the handler established it.
ParseAndPersistPresentedCn(req, peer_cn, pushes, events, at, push_id) ==
    IF req.raw.kind \in {"badjson", "nonobj"} THEN Reply(500, pushes, events)
    ELSE IF req.raw.ev = "truthy" THEN Reply(400, pushes, events)
    ELSE LET evs == EventsOf(req.raw)
             pushed == pushes \cup {PushRow(push_id, at, req.cn, req.addr, ByteLen(req.raw),
                                            Len(evs), req.raw)}
             r == AddInboxEventsCall(events, evs, at, req.cn)
         IN IF r.raised THEN Reply(500, pushed, events) ELSE Reply(200, pushed, r.tbl)

\* Faulty variant: the push is recorded after the events, with the number
\* of events newly inserted, and only when there is one.
ParseAndPersistPushIfNew(req, peer_cn, pushes, events, at, push_id) ==
    IF req.raw.kind \in {"badjson", "nonobj"} THEN Reply(500, pushes, events)
    ELSE IF req.raw.ev = "truthy" THEN Reply(400, pushes, events)
    ELSE LET evs == EventsOf(req.raw)
             r == AddInboxEventsCall(events, evs, at, peer_cn)
             pushed == IF r.value = 0 THEN pushes
                       ELSE pushes \cup {PushRow(push_id, at, peer_cn, req.addr,
                                                 ByteLen(req.raw), r.value, req.raw)}
         IN IF r.raised THEN Reply(500, pushes, events) ELSE Reply(200, pushed, r.tbl)

\* Steps 5-7 of do_POST: parse, persist, respond.  An exception anywhere is
\* answered 500; what was committed before it stays committed.
ParseAndPersist(req, peer_cn, pushes, events, at, push_id) ==
    IF req.raw.kind \in {"badjson", "nonobj"} THEN Reply(500, pushes, events)
    ELSE IF req.raw.ev = "truthy" THEN Reply(400, pushes, events)
    ELSE LET evs == EventsOf(req.raw)
             pushed == pushes \cup {PushRow(push_id, at, peer_cn, req.addr, ByteLen(req.raw),
                                            Len(evs), req.raw)}
             r == AddInboxEventsCall(events, evs, at, peer_cn)
         IN IF r.raised THEN Reply(500, pushed, events) ELSE Reply(200, pushed, r.tbl)

\* Faulty variant: the HMAC is computed over the parsed body encoded again
\* (no bytes and "{}" both parse to the empty object).
VerifySignatureReencoded(rc, req, peer_cn, pushes, events, at, push_id) ==
    IF ~rc.signing_enabled THEN ParseAndPersist(req, peer_cn, pushes, events, at, push_id)
    ELSE IF rc.hmac_key = None THEN Reply(500, pushes, events)
    ELSE IF Lower(req.alg) # "hmac-sha256" THEN Reply(401, pushes, events)
    ELSE IF req.sig = <<"non-ascii">> THEN Reply(500, pushes, events)
    ELSE IF HmacHex(rc.hmac_key[1],
                    IF req.raw.kind = "empty" THEN RawObj("absent", <<>>) ELSE req.raw) # req.sig
         THEN Reply(401, pushes, events)
    ELSE ParseAndPersist(req, peer_cn, pushes, events, at, push_id)

\* Step 4 of do_POST: HMAC verification over the raw bytes.
VerifySignature(rc, req, peer_cn, pushes, events, at, push_id) ==
    IF ~rc.signing_enabled THEN ParseAndPersist(req, peer_cn, pushes, events, at, push_id)
    ELSE IF rc.hmac_key = None THEN Reply(500, pushes, events)
    ELSE IF Lower(req.alg) # "hmac-sha256" THEN Reply(401, pushes, events)
    ELSE IF req.sig = <<"non-ascii">> THEN Reply(500, pushes, events)
    ELSE IF HmacHex(rc.hmac_key[1], req.raw) # req.sig THEN Reply(401, pushes, events)
    ELSE ParseAndPersist(req, peer_cn, pushes, events, at, push_id)

\* Faulty variant: the path is looked at after the peer identity.
DoPostIdentityFirst(rc, req, pushes, events, at, push_id) ==
    IF rc.require_client_cert /\ req.cn = None THEN Reply(401, pushes, events)
    ELSE IF rc.require_client_cert /\ req.cn[1] \notin AllowedPeerIds
         THEN Reply(403, pushes, events)
    ELSE IF req.path # "/events/push" THEN Reply(404, pushes, events)
    ELSE IF ~req.length_ok THEN Reply(500, pushes, events)
    ELSE VerifySignature(rc, req, IF rc.require_client_cert THEN req.cn ELSE None,
                         pushes, events, at, push_id)

\* do_POST: path, Content-Length, peer identity, then the steps above.
DoPost(rc, req, pushes, events, at, push_id) ==
    IF req.path # "/events/push" THEN Reply(404, pushes, events)
    ELSE IF ~req.length_ok THEN Reply(500, pushes, events)
    ELSE IF rc.require_client_cert
         THEN IF req.cn = None THEN Reply(401, pushes, events)
              ELSE IF req.cn[1] \notin AllowedPeerIds THEN Reply(403, pushes, events)
              ELSE VerifySignature(rc, req, req.cn, pushes, events, at, push_id)
         ELSE VerifySignature(rc, req, None, pushes, events, at, push_id)

(***************************************************************************)
(* Initial values shared by the specifications below.                      *)
(***************************************************************************)
NoCall == [op |-> "none"]
NoSigning == [enabled |-> FALSE, alg |-> "sha256", hmac_key |-> None]
NoReceiver == [require_client_cert |-> FALSE, signing_enabled |-> FALSE, hmac_key |-> None]

EmptyStore ==
    /\ outbox_jobs = {}
    /\ deliveries = {}
    /\ inbox_events = {}
    /\ inbox_pushes = {}
    /\ now = 0
    /\ uuid = 0
    /\ ret = NoCall
    /\ lock = None
    /\ txn = [jobs |-> {}, deliveries |-> {}]

(***************************************************************************)
(* The inbox API on one store: a sequence of add_inbox_events calls.       *)
(***************************************************************************)
FromPeerIds == {None, Some("b")}

\* Entries of a batch that reach the INSERT (history kept with the result).
RECURSIVE Offered(_)
Offered(events) ==
    IF events = <<>> THEN 0
    ELSE (IF EntrySkipped(Head(events)) THEN 0 ELSE 1) + Offered(Tail(events))

InitInbox ==
    /\ EmptyStore
    /\ receiver = NoReceiver
    /\ threads = <<>>
    /\ signing = NoSigning
    /\ flows = <<>>
    /\ completed = <<>>

AddInboxEvents(events, from_peer_id) ==
    /\ now < MaxTime
    /\ LET r == AddInboxEventsCall(inbox_events, events, now, from_peer_id) IN
         /\ inbox_events' = r.tbl
         /\ ret' = [op |-> "add_inbox_events", raised |-> r.raised, value |-> r.value,
                    offered |-> Offered(events)]
    /\ now' = now + 1
    /\ UNCHANGED <<outbox_jobs, deliveries, inbox_pushes, uuid, lock, txn, threads,
                   signing, flows, completed, receiver>>

NextInbox == \E events \in Batches, f \in FromPeerIds : AddInboxEvents(events, f)

SpecInbox == InitInbox /\ [][NextInbox]_vars

(***************************************************************************)
(* The receiving side of a node: requests handled by do_POST and direct    *)
(* add_inbox_events calls, one after the other on one store.               *)
(***************************************************************************)

\* The configurations a receiver is started with: mutual TLS required or
\* not, signing off or on with the key resolved.
ReceiverConfigs ==
    {[require_client_cert |-> m, signing_enabled |-> FALSE, hmac_key |-> None] : m \in BOOLEAN}
    \cup {[require_client_cert |-> m, signing_enabled |-> TRUE, hmac_key |-> Some("k1")] :
            m \in BOOLEAN}

\* The event lists the requests and calls of this specification carry.
ReceiverLists ==
    LET A1 == EventObj(<<"a">>, <<"D">>, PayloadObj("d1"))
        A2 == EventObj(<<" ", "a">>, <<>>, PayloadObj("d2"))
        Bad == EventObj(<<"c">>, <<"D">>, PayloadText)
    IN {<<A1>>, <<A2>>, <<A1, A2>>, <<A2, Bad>>}

\* The requests the model sends: the common name the TLS layer reports, the
\* signature headers (none, or a MAC of these bytes under some key) and the body.
Requests ==
    {[path |-> p, length_ok |-> TRUE, cn |-> cn, sig |-> sg[1], alg |-> sg[2],
      raw |-> raw, addr |-> "10.0.0.2"] :
        p \in {"/events/push", "/"}, cn \in {None, Some("b"), Some("c"), Some("z")},
        sg \in {<<"none", "">>, <<"k1", "hmac-sha256">>, <<"k2", "hmac-sha256">>},
        raw \in {RawEmpty, RawBadJson, RawNonObj, RawObj("absent", <<>>),
                 RawObj("falsy", <<>>), RawObj("truthy", <<>>)}
                \cup {RawObj("list", b) : b \in ReceiverLists}}

SignedRequest(req) ==
    [req EXCEPT !.sig = IF req.sig = "none" THEN <<>> ELSE HmacHex(req.sig, req.raw)]

InitReceiver ==
    /\ EmptyStore
    /\ receiver \in ReceiverConfigs
    /\ threads = <<>>
    /\ signing = NoSigning
    /\ flows = <<>>
    /\ completed = <<>>

HandlePost(req) ==
    /\ now < MaxTime
    /\ LET r == DoPost(receiver, req, inbox_pushes, inbox_events, now, uuid) IN
         /\ inbox_pushes' = r.pushes
         /\ inbox_events' = r.events
         /\ uuid' = IF r.pushes = inbox_pushes THEN uuid ELSE uuid + 1
         /\ ret' = [op |-> "do_POST", code |-> r.code]
    /\ now' = now + 1
    /\ UNCHANGED <<outbox_jobs, deliveries, lock, txn, threads, signing, flows,
                   completed, receiver>>

NextReceiver ==
    \/ \E req \in Requests : HandlePost(SignedRequest(req))
    \/ \E events \in ReceiverLists, f \in FromPeerIds : AddInboxEvents(events, f)

SpecReceiver == InitReceiver /\ [][NextReceiver]_vars

(***************************************************************************)
(* The outbox API on one store: add_job and update_delivery calls, one     *)
(* after the other.                                                        *)
(***************************************************************************)

\* Event lists a job is created with.
JobEventLists ==
    {<<EventObj(<<"a">>, <<"D">>, PayloadObj("d1")), EventObj(<<"b">>, <<"D">>, PayloadAbsent)>>}

TargetLists == SeqsUpTo(PeerObjs, MaxTargets)

\* What the senders hand to update_delivery for status, last_error and
\* last_http_status.
Outcomes ==
    {<<"SENT", None, Some(200)>>, <<"FAILED", Some("error"), Some(500)>>,
     <<"FAILED", Some("timeout"), None>>}

InitOutbox ==
    /\ EmptyStore
    /\ receiver = NoReceiver
    /\ threads = <<>>
    /\ signing = NoSigning
    /\ flows = <<>>
    /\ completed = <<>>

\* add_job as one call: uuid4 gives the job id and then one id per target.
AddJob(origin, label, events, targets) ==
    /\ now < MaxCalls
    /\ outbox_jobs' = outbox_jobs \cup {JobRow(uuid, now, origin, label, events, targets)}
    /\ deliveries' = InsertDeliveries(deliveries, uuid, targets, uuid + 1)
    /\ uuid' = uuid + 1 + Len(targets)
    /\ ret' = [op |-> "add_job", job_id |-> uuid,
               targets |-> [i \in DOMAIN targets |-> targets[i].peer_id]]
    /\ now' = now + 1
    /\ UNCHANGED <<inbox_events, inbox_pushes, lock, txn, threads, signing, flows,
                   completed, receiver>>

UpdateDelivery(job_id, target, status, attempts, last_error, http) ==
    /\ now < MaxCalls
    /\ deliveries' = UpdateRows(deliveries, job_id, target, status, attempts, last_error, now, http)
    /\ ret' = [op |-> "update_delivery", raised |-> FALSE, job_id |-> job_id,
               target |-> target, status |-> status, attempts |-> attempts,
               last_error |-> last_error, http |-> http]
    /\ now' = now + 1
    /\ UNCHANGED <<outbox_jobs, inbox_events, inbox_pushes, uuid, lock, txn, threads,
                   signing, flows, completed, receiver>>

NextOutbox ==
    \/ \E events \in JobEventLists, targets \in TargetLists :
          AddJob(SelfPeerId, "doc", events, targets)
    \/ \E job_id \in {j.job_id : j \in outbox_jobs} \cup {uuid}, target \in PeerIds \ {SelfPeerId},
          o \in Outcomes, attempts \in 0..MaxAttempts :
          UpdateDelivery(job_id, target, o[1], attempts, o[2], o[3])

SpecOutbox == InitOutbox /\ [][NextOutbox]_vars

(***************************************************************************)
(* add_job step by step, with concurrent readers.  Every store method      *)
(* runs under OutboxDB._lock on a connection of its own; the INSERTs of    *)
(* add_job go to that connection's open transaction (txn is its working    *)
(* copy of the two tables) and reach the tables at commit.  An exception   *)
(* leaves through "finally: conn.close()", which discards the transaction, *)
(* and then through the "with" block, which releases the lock.             *)
(***************************************************************************)
ThreadIds == {"t1", "t2"}

\* Target lists of the concurrent add_job calls: none, one target, two
\* targets, the same peer twice.
ConcurrentTargetLists ==
    {<<>>, <<PeersById["b"]>>, <<PeersById["b"], PeersById["c"]>>,
     <<PeersById["b"], PeersById["b"]>>}

\* A thread outside any store method; job and todo are the locals of add_job,
\* seen_job and seen_targets what a reader was shown.
Idle == [pc |-> "idle", job |-> None, todo |-> <<>>, inserted |-> 0,
         seen_job |-> None, seen_targets |-> {}]

InitAddJob ==
    /\ EmptyStore
    /\ threads = [t \in ThreadIds |-> Idle]
    /\ receiver = NoReceiver
    /\ signing = NoSigning
    /\ flows = <<>>
    /\ completed = <<>>

Unlocked == UNCHANGED <<outbox_jobs, deliveries, lock, txn>>

\* add_job is called: the job id and created_at are taken before the lock.
AddJobCall(t, origin, label, events, targets) ==
    /\ threads[t].pc = "idle"
    /\ now < MaxJobs
    /\ threads' = [threads EXCEPT ![t] =
          [Idle EXCEPT !.pc = "lock", !.todo = targets,
                       !.job = Some(JobRow(uuid, now, origin, label, events, targets))]]
    /\ uuid' = uuid + 1
    /\ now' = now + 1
    /\ UNCHANGED <<inbox_events, inbox_pushes, ret, signing, flows, completed, receiver>>
    /\ Unlocked

\* "with self._lock" and self._conn(): the connection sees the committed tables.
AddJobLock(t) ==
    /\ threads[t].pc = "lock"
    /\ lock = None
    /\ lock' = Some(t)
    /\ txn' = [jobs |-> outbox_jobs, deliveries |-> deliveries]
    /\ threads' = [threads EXCEPT ![t].pc = "insert_job"]
    /\ UNCHANGED <<outbox_jobs, deliveries, inbox_events, inbox_pushes, now, uuid, ret,
                   signing, flows, completed, receiver>>

\* Faulty variant: the job row is inserted and committed in a block of its
\* own, and the lock is released before the delivery rows are inserted.
AddJobInsertJobCommitted(t) ==
    /\ threads[t].pc = "insert_job"
    /\ lock = Some(t)
    /\ outbox_jobs' = outbox_jobs \cup {threads[t].job[1]}
    /\ lock' = None
    /\ threads' = [threads EXCEPT ![t].pc = "insert_delivery"]
    /\ UNCHANGED <<deliveries, txn, inbox_events, inbox_pushes, now, uuid, ret,
                   signing, flows, completed, receiver>>

\* INSERT INTO outbox_jobs, inside the transaction.
AddJobInsertJob(t) ==
    /\ threads[t].pc = "insert_job"
    /\ lock = Some(t)
    /\ txn' = [txn EXCEPT !.jobs = @ \cup {threads[t].job[1]}]
    /\ threads' = [threads EXCEPT ![t].pc = "insert_delivery"]
    /\ UNCHANGED <<outbox_jobs, deliveries, lock, inbox_events, inbox_pushes, now, uuid,
                   ret, signing, flows, completed, receiver>>

\* One round of the loop over targets: uuid4 and INSERT OR REPLACE INTO deliveries.
AddJobInsertDelivery(t) ==
    /\ threads[t].pc = "insert_delivery"
    /\ lock = Some(t)
    /\ threads[t].todo # <<>>
    /\ txn' = [txn EXCEPT !.deliveries =
          InsertOrReplaceDelivery(@, DeliveryRow(uuid, threads[t].job[1].job_id,
                                                 Head(threads[t].todo)))]
    /\ uuid' = uuid + 1
    /\ threads' = [threads EXCEPT ![t] =
          [@ EXCEPT !.todo = Tail(@), !.inserted = @ + 1]]
    /\ UNCHANGED <<outbox_jobs, deliveries, lock, inbox_events, inbox_pushes, now, ret,
                   signing, flows, completed, receiver>>

\* conn.commit(), return job_id, conn.close(), release of the lock.
AddJobCommit(t) ==
    /\ threads[t].pc = "insert_delivery"
    /\ lock = Some(t)
    /\ threads[t].todo = <<>>
    /\ outbox_jobs' = txn.jobs
    /\ deliveries' = txn.deliveries
    /\ txn' = [jobs |-> {}, deliveries |-> {}]
    /\ lock' = None
    /\ ret' = [op |-> "add_job", job_id |-> threads[t].job[1].job_id,
               targets |-> threads[t].job[1].targets_json]
    /\ threads' = [threads EXCEPT ![t] = Idle]
    /\ UNCHANGED <<inbox_events, inbox_pushes, now, uuid, signing, flows, completed, receiver>>

\* Faulty variant: the connection is closed by a handler that commits what
\* the transaction holds.
AddJobFailCommitting(t) ==
    /\ threads[t].pc \in {"insert_job", "insert_delivery"}
    /\ lock = Some(t)
    /\ outbox_jobs' = txn.jobs
    /\ deliveries' = txn.deliveries
    /\ txn' = [jobs |-> {}, deliveries |-> {}]
    /\ lock' = None
    /\ threads' = [threads EXCEPT ![t].pc = "raised"]
    /\ UNCHANGED <<inbox_events, inbox_pushes, now, uuid, ret, signing, flows,
                   completed, receiver>>

\* A storage error in the job INSERT, in a delivery INSERT or in the commit:
\* the exception leaves add_job, close() drops the transaction, the lock is freed.
AddJobFail(t) ==
    /\ threads[t].pc \in {"insert_job", "insert_delivery"}
    /\ lock = Some(t)
    /\ txn' = [jobs |-> {}, deliveries |-> {}]
    /\ lock' = None
    /\ threads' = [threads EXCEPT ![t].pc = "raised"]
    /\ UNCHANGED <<outbox_jobs, deliveries, inbox_events, inbox_pushes, now, uuid, ret,
                   signing, flows, completed, receiver>>

\* The caller that got the exception goes on.
AfterRaise(t) ==
    /\ threads[t].pc = "raised"
    /\ threads' = [threads EXCEPT ![t] = Idle]
    /\ UNCHANGED <<inbox_events, inbox_pushes, now, uuid, ret, signing, flows,
                   completed, receiver>>
    /\ Unlocked

\* list_jobs under the lock; the reader picks one of the jobs it was shown.
ListJobs(t) ==
    /\ threads[t].pc = "idle"
    /\ lock = None
    /\ \E j \in outbox_jobs :
          threads' = [threads EXCEPT ![t] = [Idle EXCEPT !.pc = "picked", !.seen_job = Some(j)]]
    /\ UNCHANGED <<inbox_events, inbox_pushes, now, uuid, ret, signing, flows,
                   completed, receiver>>
    /\ Unlocked

\* list_deliveries (or get_pending_or_failed_targets) for that job, under the lock.
ListDeliveries(t) ==
    /\ threads[t].pc = "picked"
    /\ lock = None
    /\ \E seen \in { {d.target_peer_id : d \in Range(list_deliveries(threads[t].seen_job[1].job_id))},
                    {d.target_peer_id : d \in get_pending_or_failed_targets(threads[t].seen_job[1].job_id)} } :
          threads' = [threads EXCEPT ![t] = [@ EXCEPT !.pc = "idle", !.seen_targets = seen]]
    /\ UNCHANGED <<inbox_events, inbox_pushes, now, uuid, ret, signing, flows,
                   completed, receiver>>
    /\ Unlocked

NextAddJob ==
    \E t \in ThreadIds :
        \/ \E events \in JobEventLists, targets \in ConcurrentTargetLists :
              AddJobCall(t, SelfPeerId, "doc", events, targets)
        \/ AddJobLock(t)
        \/ AddJobInsertJob(t)
        \/ AddJobInsertDelivery(t)
        \/ AddJobCommit(t)
        \/ AddJobFail(t)
        \/ AfterRaise(t)
        \/ ListJobs(t)
        \/ ListDeliveries(t)

SpecAddJob == InitAddJob /\ [][NextAddJob]_vars

(***************************************************************************)
(* add_inbox_events step by step, called by several threads (receiver      *)
(* handlers, other callers) on one OutboxDB.  A call takes OutboxDB._lock,  *)
(* opens a connection of its own, runs its INSERT OR IGNORE statements in   *)
(* that connection's transaction and commits; total_changes is counted per  *)
(* connection.  conn is the connection of a thread: the committed rows it   *)
(* started from, its view of the table and its count of changes.            *)
(***************************************************************************)

\* Batches of the concurrent calls: ids that overlap between the batches (" a"
\* strips to "a"), an entry that is skipped, an entry that raises.
ConcurrentBatches ==
    LET A1 == EventObj(<<"a">>, <<"D">>, PayloadObj("d1"))
        A2 == EventObj(<<" ", "a">>, <<>>, PayloadObj("d2"))
        B1 == EventObj(<<"b">>, <<"D">>, PayloadAbsent)
        Bad == EventObj(<<"c">>, <<"D">>, PayloadText)
    IN {<<>>, <<A1>>, <<A2, B1>>, <<NonObjEntry, B1>>, <<B1, Bad>>}

\* A thread outside add_inbox_events; returned is the sum of the counts its
\* calls have returned.
IdleCaller(returned) ==
    [pc |-> "idle", todo |-> <<>>, from |-> None, conn |-> None, returned |-> returned]

InitInboxLock ==
    /\ EmptyStore
    /\ threads = [t \in ThreadIds |-> IdleCaller(0)]
    /\ receiver = NoReceiver
    /\ signing = NoSigning
    /\ flows = <<>>
    /\ completed = <<>>

\* add_inbox_events is called: an empty list returns 0 at once.
InboxCall(t, events, from_peer_id) ==
    /\ threads[t].pc = "idle"
    /\ now < MaxCalls
    /\ now' = now + 1
    /\ IF events = <<>>
       THEN /\ ret' = [op |-> "add_inbox_events", raised |-> FALSE, value |-> 0, offered |-> 0]
            /\ UNCHANGED threads
       ELSE /\ threads' = [threads EXCEPT ![t] =
                  [IdleCaller(threads[t].returned) EXCEPT
                      !.pc = "lock", !.todo = events, !.from = from_peer_id]]
            /\ UNCHANGED ret
    /\ UNCHANGED <<outbox_jobs, deliveries, inbox_events, inbox_pushes, uuid, lock, txn,
                   signing, flows, completed, receiver>>

\* Faulty variant: the store has no lock; the connection is opened whatever
\* other call is running.
InboxLockNoExclusion(t) ==
    /\ threads[t].pc = "lock"
    /\ lock' = Some(t)
    /\ threads' = [threads EXCEPT
          ![t].pc = "loop",
          ![t].conn = Some([base |-> inbox_events, view |-> inbox_events, changes |-> 0])]
    /\ UNCHANGED <<outbox_jobs, deliveries, inbox_events, inbox_pushes, now, uuid, ret, txn,
                   signing, flows, completed, receiver>>

\* "with self._lock", self._conn() and before = conn.total_changes.
InboxLock(t) ==
    /\ threads[t].pc = "lock"
    /\ lock = None
    /\ lock' = Some(t)
    /\ threads' = [threads EXCEPT
          ![t].pc = "loop",
          ![t].conn = Some([base |-> inbox_events, view |-> inbox_events, changes |-> 0])]
    /\ UNCHANGED <<outbox_jobs, deliveries, inbox_events, inbox_pushes, now, uuid, ret, txn,
                   signing, flows, completed, receiver>>

\* One round of the loop: the entry is passed over, or raises (finally closes
\* the connection without commit and the lock is released), or is inserted
\* with INSERT OR IGNORE in the connection's transaction.
InboxInsert(t) ==
    /\ threads[t].pc = "loop"
    /\ threads[t].todo # <<>>
    /\ LET ev == Head(threads[t].todo)
           c == threads[t].conn[1]
           row == InboxRow(ev, now, threads[t].from)
       IN IF EntrySkipped(ev)
          THEN /\ threads' = [threads EXCEPT ![t].todo = Tail(@)]
               /\ UNCHANGED <<lock, ret>>
          ELSE IF EntryRaises(ev)
          THEN /\ threads' = [threads EXCEPT ![t] = IdleCaller(threads[t].returned)]
               /\ lock' = None
               /\ ret' = [op |-> "add_inbox_events", raised |-> TRUE, value |-> 0,
                          offered |-> 0]
          ELSE /\ threads' = [threads EXCEPT
                     ![t].todo = Tail(@),
                     ![t].conn = Some([c EXCEPT
                                          !.view = InsertOrIgnoreEvent(c.view, row),
                                          !.changes = @ + InsertChanges(c.view, row)])]
               /\ UNCHANGED <<lock, ret>>
    /\ UNCHANGED <<outbox_jobs, deliveries, inbox_events, inbox_pushes, now, uuid, txn,
                   signing, flows, completed, receiver>>

\* conn.commit(), return conn.total_changes - before, close, release.
InboxCommit(t) ==
    /\ threads[t].pc = "loop"
    /\ threads[t].todo = <<>>
    /\ LET c == threads[t].conn[1] IN
         /\ inbox_events' = c.view
         /\ ret' = [op |-> "add_inbox_events", raised |-> FALSE, value |-> c.changes,
                    offered |-> 0]
         /\ threads' = [threads EXCEPT ![t] = IdleCaller(threads[t].returned + c.changes)]
    /\ lock' = None
    /\ UNCHANGED <<outbox_jobs, deliveries, inbox_pushes, now, uuid, txn, signing, flows,
                   completed, receiver>>

NextInboxLock ==
    \E t \in ThreadIds :
        \/ \E events \in ConcurrentBatches, f \in FromPeerIds : InboxCall(t, events, f)
        \/ InboxLock(t)
        \/ InboxInsert(t)
        \/ InboxCommit(t)

SpecInboxLock == InitInboxLock /\ [][NextInboxLock]_vars

(***************************************************************************)
(* Sending: FederationClient.push_events and the two sending loops of the  *)
(* GUI.  _on_submit stores a job and starts a send_job thread over the     *)
(* selected destinations; _resend_selected reads the job's PENDING/FAILED  *)
(* rows and starts a work thread over them.  Each thread goes through its  *)
(* targets in turn: push, read the pending rows, write the row back.  The  *)
(* two store calls are atomic (OutboxDB._lock); the threads interleave     *)
(* between them.                                                           *)
(***************************************************************************)

\* Signing configurations a FederationClient can be constructed with
\* (load_config lower-cases alg and accepts any value; __init__ refuses an
\* enabled configuration without a key).
SigningConfigs ==
    {NoSigning,
     [enabled |-> TRUE, alg |-> "sha256", hmac_key |-> Some("k1")],
     [enabled |-> TRUE, alg |-> "sha512", hmac_key |-> Some("k1")]}

\* stable_json_bytes of the request body {"events": events}: the bytes of a
\* JSON object whose events member is that list, in the terms in which the
\* receiver's side describes the bytes of a body.
stable_json_bytes(obj) == RawObj("list", obj.events)

\* _sign_headers: no headers when signing is off, ValueError for an alg other
\* than sha256, the two signature headers otherwise.
SignHeaders(sg, body) ==
    IF ~sg.enabled THEN [raised |-> FALSE, headers |-> <<>>]
    ELSE IF sg.alg # "sha256" THEN [raised |-> TRUE, headers |-> <<>>]
    ELSE [raised |-> FALSE,
          headers |-> <<<<"X-Signature", HmacHex(sg.hmac_key[1], body)>>,
                        <<"X-Signature-Alg", "hmac-sha256">>>>]

\* What requests.post does: a response with a status and a text, or an exception.
Responses ==
    {[kind |-> "http", status_code |-> 200, text |-> "ok"],
     [kind |-> "http", status_code |-> 500, text |-> "error"],
     [kind |-> "exc", status_code |-> 0, text |-> "timeout"]}

\* A call that got as far as requests.post: its triple, and the one request it
\* issued.
Returned(ok, msg, http) ==
    [raised |-> FALSE, ok |-> ok, msg |-> msg, http |-> http, posts |-> 1]

\* Faulty variant: every HTTP answer counts as a success, whatever its status.
push_events_any_status(sg, peer, events, resp) ==
    LET body == stable_json_bytes([events |-> events])
        sh == SignHeaders(sg, body)
    IN IF sh.raised
       THEN [raised |-> TRUE, ok |-> FALSE, msg |-> "Unsupported signing alg", http |-> None,
             posts |-> 0]
       ELSE IF resp.kind = "exc" THEN Returned(FALSE, resp.text, None)
       ELSE Returned(TRUE, "ok", Some(resp.status_code))

\* push_events: body and headers are built before the try block; the post and
\* the reading of the response are inside it.
push_events(sg, peer, events, resp) ==
    LET body == stable_json_bytes([events |-> events])
        sh == SignHeaders(sg, body)
    IN IF sh.raised
       THEN [raised |-> TRUE, ok |-> FALSE, msg |-> "Unsupported signing alg", http |-> None,
             posts |-> 0]
       ELSE IF resp.kind = "exc" THEN Returned(FALSE, resp.text, None)
       ELSE IF resp.status_code >= 400
            THEN Returned(FALSE, IF resp.text # "" THEN resp.text ELSE "HTTP",
                          Some(resp.status_code))
            ELSE Returned(TRUE, "ok", Some(resp.status_code))

\* Faulty variant: the stored count is written back as it was read.
AttemptAsStored(pend, pid) ==
    IF \E d \in pend : d.target_peer_id = pid
    THEN (CHOOSE d \in pend : d.target_peer_id = pid).attempts
    ELSE 1

\* Faulty variant: every attempt is numbered 1.
AttemptAlwaysOne(pend, pid) == 1

\* The attempt number of the sending loops: 1, or the stored attempts plus one
\* when the target is among the pending/failed rows just read.
Attempt(pend, pid) ==
    IF \E d \in pend : d.target_peer_id = pid
    THEN (CHOOSE d \in pend : d.target_peer_id = pid).attempts + 1
    ELSE 1

\* _selected_dests: the ticked peers other than self, in the order of the
\* configuration; _on_submit returns early when none is ticked.  (One peer
\* ticked, or both.)
DestLists ==
    {<<PeersById["b"]>>, <<PeersById["b"], PeersById["c"]>>}

\* The orders in which a SELECT without ORDER BY can return a set of rows.
Orders(S) == {s \in [1..Cardinality(S) -> S] : Range(s) = S}

\* A sending thread: its targets and the events it holds (the list handed to
\* add_job for send_job, the result of get_job_events for work).
Flow(kind, job_id, todo, events) ==
    [kind |-> kind, job_id |-> job_id, todo |-> todo, events |-> events, pc |-> "push",
     res |-> None, attempt |-> 0]

\* A sending thread that has not finished with its targets.
Live(f) == f.pc \in {"push", "update"}

\* History: a thread starts on (job, target) while another one still has
\* that target ahead of it or in hand.
Shared(job_id, pid) ==
    \E i \in DOMAIN flows :
        /\ Live(flows[i])
        /\ flows[i].job_id = job_id
        /\ \E k \in DOMAIN flows[i].todo : flows[i].todo[k].peer_id = pid

\* History: the pushes completed so far, over all (job, target) pairs.
RECURSIVE SumPushes(_)
SumPushes(keys) ==
    IF keys = {} THEN 0
    ELSE LET k == CHOOSE x \in keys : TRUE
         IN completed[k].pushes + SumPushes(keys \ {k})

InitSend ==
    /\ EmptyStore
    /\ receiver = NoReceiver
    /\ threads = <<>>
    /\ signing \in {c \in SigningConfigs : c.enabled}
    /\ flows = <<>>
    /\ completed = <<>>

\* _on_submit: add_job, then the send_job thread is started.
OnSubmit(events, dests) ==
    /\ Len(flows) < MaxFlows
    /\ Cardinality(outbox_jobs) < MaxSubmits
    /\ events # <<>>
    /\ dests # <<>>
    /\ outbox_jobs' = outbox_jobs \cup {JobRow(uuid, now, SelfPeerId, "doc", events, dests)}
    /\ deliveries' = InsertDeliveries(deliveries, uuid, dests, uuid + 1)
    /\ uuid' = uuid + 1 + Len(dests)
    /\ flows' = Append(flows, Flow("send_job", uuid, dests, events))
    /\ completed' = completed @@
            [k \in {<<uuid, dests[i].peer_id>> : i \in DOMAIN dests} |->
                [pushes |-> 0, shared |-> FALSE]]
    /\ UNCHANGED <<inbox_events, inbox_pushes, now, ret, lock, txn, threads, signing,
                   receiver>>

\* _resend_selected on a job of the outbox list: the early returns, then the
\* work thread is started over the pending/failed targets.
ResendSelected(job_id, targets) ==
    /\ Len(flows) < MaxFlows
    /\ \E j \in outbox_jobs : j.job_id = job_id
    /\ get_pending_or_failed_targets(job_id) # {}
    /\ get_job_events(job_id) # <<>>
    /\ LET valid == {PeersById[p.target_peer_id] :
                        p \in {q \in get_pending_or_failed_targets(job_id) :
                                  /\ q.target_peer_id \in DOMAIN PeersById
                                  /\ q.target_peer_id # SelfPeerId}}
       IN /\ targets \in Orders(valid)
          /\ targets # <<>>
    /\ flows' = Append(flows, Flow("work", job_id, targets, get_job_events(job_id)))
    /\ completed' =
            [k \in DOMAIN completed |->
                IF k[1] = job_id /\ (\E i \in DOMAIN targets : targets[i].peer_id = k[2])
                   /\ Shared(job_id, k[2])
                THEN [completed[k] EXCEPT !.shared = TRUE]
                ELSE completed[k]]
    /\ UNCHANGED <<outbox_jobs, deliveries, inbox_events, inbox_pushes, now, uuid, ret,
                   lock, txn, threads, signing, receiver>>

\* The first half of the loop body: push_events, then
\* get_pending_or_failed_targets and the computation of attempt.  The push
\* does not touch the store, so nothing another thread does between the
\* return of the push and the read differs from its being done before the
\* push; the read and the write-back below are the steps other threads
\* interleave with.  An exception out of push_events ends the thread.
FlowPush(i, resp) ==
    /\ flows[i].pc = "push"
    /\ SumPushes(DOMAIN completed) < MaxPushes
    /\ LET peer == Head(flows[i].todo)
           key == <<flows[i].job_id, peer.peer_id>>
           r == push_events(signing, peer, flows[i].events, resp)
       IN IF r.raised
          THEN /\ flows' = [flows EXCEPT ![i].pc = "raised", ![i].todo = <<>>]
               /\ UNCHANGED completed
          ELSE /\ flows' = [flows EXCEPT
                              ![i].pc = "update",
                              ![i].res = Some(r),
                              ![i].attempt =
                                  Attempt(get_pending_or_failed_targets(flows[i].job_id),
                                          peer.peer_id)]
               /\ completed' = [completed EXCEPT ![key].pushes = @ + 1]
    /\ UNCHANGED <<outbox_jobs, deliveries, inbox_events, inbox_pushes, now, uuid, ret,
                   lock, txn, threads, signing, receiver>>

\* Faulty variant: the message of the push is stored as last_error whatever
\* the outcome.
FlowUpdateKeepsMessage(i) ==
    /\ flows[i].pc = "update"
    /\ LET f == flows[i]
           r == f.res[1]
       IN /\ deliveries' = UpdateRows(deliveries, f.job_id, Head(f.todo).peer_id,
                                      IF r.ok THEN "SENT" ELSE "FAILED", f.attempt,
                                      Some(r.msg), now, r.http)
          /\ flows' = [flows EXCEPT
                          ![i].todo = Tail(f.todo),
                          ![i].pc = IF Tail(f.todo) = <<>> THEN "done" ELSE "push",
                          ![i].res = None,
                          ![i].attempt = 0]
    /\ UNCHANGED <<outbox_jobs, inbox_events, inbox_pushes, now, uuid, ret, lock, txn,
                   threads, signing, completed, receiver>>

\* Faulty variant: a failed push puts the row back to PENDING.
FlowUpdateRequeue(i) ==
    /\ flows[i].pc = "update"
    /\ LET f == flows[i]
           r == f.res[1]
       IN /\ deliveries' = UpdateRows(deliveries, f.job_id, Head(f.todo).peer_id,
                                      IF r.ok THEN "SENT" ELSE "PENDING", f.attempt,
                                      IF r.ok THEN None ELSE Some(r.msg), now, r.http)
          /\ flows' = [flows EXCEPT
                          ![i].todo = Tail(f.todo),
                          ![i].pc = IF Tail(f.todo) = <<>> THEN "done" ELSE "push",
                          ![i].res = None,
                          ![i].attempt = 0]
    /\ UNCHANGED <<outbox_jobs, inbox_events, inbox_pushes, now, uuid, ret, lock, txn,
                   threads, signing, completed, receiver>>

\* Faulty variant: a target whose push failed stays at the head of the list
\* and is pushed to again.
FlowUpdateRetrying(i) ==
    /\ flows[i].pc = "update"
    /\ LET f == flows[i]
           r == f.res[1]
           rest == IF r.ok THEN Tail(f.todo) ELSE f.todo
       IN /\ deliveries' = UpdateRows(deliveries, f.job_id, Head(f.todo).peer_id,
                                      IF r.ok THEN "SENT" ELSE "FAILED", f.attempt,
                                      IF r.ok THEN None ELSE Some(r.msg), now, r.http)
          /\ flows' = [flows EXCEPT
                          ![i].todo = rest,
                          ![i].pc = IF rest = <<>> THEN "done" ELSE "push",
                          ![i].res = None,
                          ![i].attempt = 0]
    /\ UNCHANGED <<outbox_jobs, inbox_events, inbox_pushes, now, uuid, ret, lock, txn,
                   threads, signing, completed, receiver>>

\* update_delivery with the outcome of the push, then on to the next target.
FlowUpdate(i) ==
    /\ flows[i].pc = "update"
    /\ LET f == flows[i]
           r == f.res[1]
       IN /\ deliveries' = UpdateRows(deliveries, f.job_id, Head(f.todo).peer_id,
                                      IF r.ok THEN "SENT" ELSE "FAILED", f.attempt,
                                      IF r.ok THEN None ELSE Some(r.msg), now, r.http)
          /\ flows' = [flows EXCEPT
                          ![i].todo = Tail(f.todo),
                          ![i].pc = IF Tail(f.todo) = <<>> THEN "done" ELSE "push",
                          ![i].res = None,
                          ![i].attempt = 0]
    /\ UNCHANGED <<outbox_jobs, inbox_events, inbox_pushes, now, uuid, ret, lock, txn,
                   threads, signing, completed, receiver>>

NextSend ==
    \/ \E events \in JobEventLists, dests \in DestLists : OnSubmit(events, dests)
    \/ \E j \in outbox_jobs, targets \in SeqsUpTo(PeerObjs, Cardinality(PeerObjs)) :
          ResendSelected(j.job_id, targets)
    \/ \E i \in DOMAIN flows :
          \/ \E resp \in Responses : FlowPush(i, resp)
          \/ FlowUpdate(i)

SpecSend == InitSend /\ [][NextSend]_vars

\* Sends and resends with at most one sending thread of a job at a time:
\* Resend is pressed on a job only when no thread of that job is running.
NoLiveFlow(job_id) ==
    \A i \in DOMAIN flows : flows[i].job_id = job_id => ~Live(flows[i])

NextSequential ==
    \/ \E events \in JobEventLists, dests \in DestLists : OnSubmit(events, dests)
    \/ \E j \in outbox_jobs, targets \in SeqsUpTo(PeerObjs, Cardinality(PeerObjs)) :
          NoLiveFlow(j.job_id) /\ ResendSelected(j.job_id, targets)
    \/ \E i \in DOMAIN flows :
          \/ \E resp \in Responses : FlowPush(i, resp)
          \/ FlowUpdate(i)

SpecSequential == InitSend /\ [][NextSequential]_vars

\* One submitted job and the resends of it: the Outbox tab with a single row,
\* on which Resend is pressed while earlier threads of the job may still run.
NextResend ==
    \/ /\ outbox_jobs = {}
       /\ \E events \in JobEventLists, dests \in DestLists : OnSubmit(events, dests)
    \/ \E j \in outbox_jobs, targets \in SeqsUpTo(PeerObjs, Cardinality(PeerObjs)) :
          ResendSelected(j.job_id, targets)
    \/ \E i \in DOMAIN flows :
          \/ \E resp \in Responses : FlowPush(i, resp)
          \/ FlowUpdate(i)

SpecResend == InitSend /\ [][NextResend]_vars

(***************************************************************************)
(* push_events on its own: calls of one client, for each signing           *)
(* configuration it can be constructed with, each peer, event list and     *)
(* answer of the network.                                                  *)
(***************************************************************************)

\* Event lists handed to push_events.
PushEventLists ==
    SeqsUpTo({EventObj(<<"a">>, <<"D">>, PayloadObj("d1")),
              EventObj(<<"b">>, <<"D">>, PayloadAbsent)}, MaxBatch)

\* Answers of the network in the calls of this specification: those above,
\* a redirect status, and error statuses with and without a text.
PushResponses ==
    Responses \cup
    {[kind |-> "http", status_code |-> 302, text |-> ""],
     [kind |-> "http", status_code |-> 400, text |-> ""],
     [kind |-> "http", status_code |-> 404, text |-> "not found"]}

InitPush ==
    /\ EmptyStore
    /\ receiver = NoReceiver
    /\ threads = <<>>
    /\ signing \in SigningConfigs
    /\ flows = <<>>
    /\ completed = <<>>

PushEvents(peer, events, resp) ==
    /\ ret' = [op |-> "push_events", peer_id |-> peer.peer_id, events |-> events,
               resp |-> resp, result |-> push_events(signing, peer, events, resp)]
    /\ UNCHANGED <<outbox_jobs, deliveries, inbox_events, inbox_pushes, now, uuid, lock,
                   txn, threads, signing, flows, completed, receiver>>

NextPush ==
    \E p \in PeerIds, events \in PushEventLists, resp \in PushResponses :
        PushEvents(PeersById[p], events, resp)

SpecPush == InitPush /\ [][NextPush]_vars

(***************************************************************************)
(* Request handling: POST requests reaching do_POST one after the other,   *)
(* each with its request target, Content-Length header, the common name    *)
(* the TLS layer reports, the signature headers and the body.              *)
(***************************************************************************)

PostTargets == {"/events/push", "/events/push?probe=1", "/events"}

\* urlparse(self.path).path: the target without its query.
UrlPath(target) == IF target = "/events/push?probe=1" THEN "/events/push" ELSE target

\* Bodies: the special ones, a list with one good event, a list whose second
\* event makes add_inbox_events raise.
PostBodies ==
    {RawEmpty, RawBadJson, RawNonObj, RawObj("absent", <<>>), RawObj("falsy", <<>>),
     RawObj("truthy", <<>>),
     RawObj("list", <<EventObj(<<"a">>, <<"D">>, PayloadObj("d1"))>>),
     RawObj("list", <<EventObj(<<" ", "a">>, <<>>, PayloadObj("d2")),
                      EventObj(<<"c">>, <<"D">>, PayloadText)>>)}

\* Signature headers of a request: none; the client's headers under the
\* receiver's key or under another key; the signature with the algorithm
\* name in capitals, absent or another one; a signature that is not ASCII;
\* the client's signature of other bytes (the body "{}").
PostSignatures ==
    {[sig |-> "none", alg |-> ""],
     [sig |-> "k1", alg |-> "hmac-sha256"],
     [sig |-> "k2", alg |-> "hmac-sha256"],
     [sig |-> "k1", alg |-> "HMAC-SHA256"],
     [sig |-> "k1", alg |-> ""],
     [sig |-> "k1", alg |-> "hmac-sha512"],
     [sig |-> "non-ascii", alg |-> "hmac-sha256"],
     [sig |-> "other-body", alg |-> "hmac-sha256"]}

\* The X-Signature value a client holding `key` computes for `body`
\* (FederationClient._sign_headers).
ClientSignature(key, body) ==
    SignHeaders([enabled |-> TRUE, alg |-> "sha256", hmac_key |-> Some(key)], body).headers[1][2]

\* The value of the X-Signature header as the handler reads it ("" when absent).
SignatureHeader(sig, raw) ==
    CASE sig = "none" -> <<>>
      [] sig = "non-ascii" -> <<"non-ascii">>
      [] sig = "other-body" -> ClientSignature("k1", RawObj("absent", <<>>))
      [] OTHER -> ClientSignature(sig, raw)

\* A request: target, Content-Length header, common name, signature headers
\* and body.
PostRequest(t, l, cn, sg, raw) ==
    [path |-> UrlPath(t), length_ok |-> l, cn |-> cn, sig |-> SignatureHeader(sg.sig, raw),
     alg |-> sg.alg, raw |-> raw, addr |-> "10.0.0.2"]

\* The common names the TLS layer reports: none, the node's own id, a peer of
\* the configuration.
PostCommonNames == {None, Some(SelfPeerId), Some("b")}

\* The requests of this specification.  With a Content-Length that int()
\* rejects the handler never reads the body, so those requests carry none.
PostRequests ==
    {PostRequest(t, TRUE, cn, sg, raw) :
        t \in PostTargets, cn \in PostCommonNames, sg \in PostSignatures, raw \in PostBodies}
    \cup
    {PostRequest(t, FALSE, cn, sg, RawEmpty) :
        t \in PostTargets, cn \in PostCommonNames, sg \in PostSignatures}

InitPost ==
    /\ EmptyStore
    /\ receiver \in ReceiverConfigs
    /\ threads = <<>>
    /\ signing = NoSigning
    /\ flows = <<>>
    /\ completed = <<>>

\* Faulty variant: the exception of a request leaves the handler and ends the
\* serving loop; no request is handled after one answered 500.
PostUntilError(req) ==
    /\ now < MaxPosts
    /\ ~(ret.op = "do_POST" /\ ret.code = 500)
    /\ LET r == DoPost(receiver, req, inbox_pushes, inbox_events, now, uuid) IN
         /\ inbox_pushes' = r.pushes
         /\ inbox_events' = r.events
         /\ uuid' = IF r.pushes = inbox_pushes THEN uuid ELSE uuid + 1
         /\ ret' = [op |-> "do_POST", code |-> r.code, req |-> req]
    /\ now' = now + 1
    /\ UNCHANGED <<outbox_jobs, deliveries, lock, txn, threads, signing, flows,
                   completed, receiver>>

\* One request handled by do_POST; the request is kept with the answer.
Post(req) ==
    /\ now < MaxPosts
    /\ LET r == DoPost(receiver, req, inbox_pushes, inbox_events, now, uuid) IN
         /\ inbox_pushes' = r.pushes
         /\ inbox_events' = r.events
         /\ uuid' = IF r.pushes = inbox_pushes THEN uuid ELSE uuid + 1
         /\ ret' = [op |-> "do_POST", code |-> r.code, req |-> req]
    /\ now' = now + 1
    /\ UNCHANGED <<outbox_jobs, deliveries, lock, txn, threads, signing, flows,
                   completed, receiver>>

NextPost == \E req \in PostRequests : Post(req)

SpecPost == InitPost /\ [][NextPost]_vars

(***************************************************************************)
(* The life of the EmbeddedReceiver: construction by cli.main, start(),    *)
(* requests while the serving thread runs, stop().                         *)
(***************************************************************************)

\* --listen-port values: negative, the default 0 (disabled), a port.
ListenPorts == {-1, 0, 8443}

\* The TLS settings of the self peer: whether client_cert and client_key are
\* configured (and the files exist), and verify (FALSE, or TRUE / a CA path).
TlsConfigs == [certs : BOOLEAN, verify : BOOLEAN]

\* EmbeddedReceiver.__init__: nothing is opened or started.
NewReceiver(port, tls, rc) ==
    [port |-> port, tls |-> tls, signing_enabled |-> rc.signing_enabled,
     hmac_key |-> rc.hmac_key, require_client_cert |-> FALSE,
     server |-> FALSE, thread |-> FALSE, pc |-> "constructed"]

\* _make_ssl_context: RuntimeError without certificate and key; client
\* certificates are required unless verify is False.
make_ssl_context(tls) ==
    IF ~tls.certs THEN [raised |-> TRUE, require_client_cert |-> FALSE]
    ELSE [raised |-> FALSE, require_client_cert |-> tls.verify]

\* Faulty variant: the SSL context is built before the port is looked at.
startContextFirst(r, bind_ok) ==
    LET c == make_ssl_context(r.tls) IN
    IF c.raised THEN [r EXCEPT !.pc = "raised"]
    ELSE IF r.port <= 0 THEN [r EXCEPT !.pc = "returned"]
    ELSE IF ~bind_ok THEN [r EXCEPT !.pc = "raised"]
    ELSE [r EXCEPT !.pc = "returned", !.require_client_cert = c.require_client_cert,
                   !.server = TRUE, !.thread = TRUE]

\* start(): returns at once for a port <= 0; otherwise builds the SSL
\* context, binds the HTTPServer (OSError when the port cannot be bound) and
\* starts the serving thread.
start(r, bind_ok) ==
    IF r.port <= 0 THEN [r EXCEPT !.pc = "returned"]
    ELSE LET c == make_ssl_context(r.tls) IN
         IF c.raised THEN [r EXCEPT !.pc = "raised"]
         ELSE IF ~bind_ok THEN [r EXCEPT !.pc = "raised"]
         ELSE [r EXCEPT !.pc = "returned", !.require_client_cert = c.require_client_cert,
                        !.server = TRUE, !.thread = TRUE]

\* The requests peers send in this specification.
StartRequests ==
    {PostRequest(t, TRUE, cn, sg, raw) :
        t \in PostTargets, cn \in PostCommonNames,
        sg \in {[sig |-> "none", alg |-> ""], [sig |-> "k1", alg |-> "hmac-sha256"]},
        raw \in {RawEmpty, RawObj("list", <<EventObj(<<"a">>, <<"D">>, PayloadObj("d1"))>>)}}

InitStart ==
    /\ EmptyStore
    /\ receiver \in {NewReceiver(p, tls, rc) :
                        p \in ListenPorts, tls \in TlsConfigs,
                        rc \in {c \in ReceiverConfigs : ~c.require_client_cert}}
    /\ threads = <<>>
    /\ signing = NoSigning
    /\ flows = <<>>
    /\ completed = <<>>

\* cli.main calls receiver.start().
StartReceiver(bind_ok) ==
    /\ receiver.pc = "constructed"
    /\ receiver' = start(receiver, bind_ok)
    /\ ret' = [op |-> "start", raised |-> receiver'.pc = "raised"]
    /\ UNCHANGED <<outbox_jobs, deliveries, inbox_events, inbox_pushes, now, uuid, lock,
                   txn, threads, signing, flows, completed>>

\* A request reaches the node: it is handled when a serving thread runs on a
\* bound socket, and by nothing otherwise.
Serve(req) ==
    /\ receiver.server
    /\ receiver.thread
    /\ now < MaxPosts
    /\ LET r == DoPost(receiver, req, inbox_pushes, inbox_events, now, uuid) IN
         /\ inbox_pushes' = r.pushes
         /\ inbox_events' = r.events
         /\ uuid' = IF r.pushes = inbox_pushes THEN uuid ELSE uuid + 1
         /\ ret' = [op |-> "do_POST", code |-> r.code, req |-> req]
    /\ now' = now + 1
    /\ UNCHANGED <<outbox_jobs, deliveries, lock, txn, threads, signing, flows,
                   completed, receiver>>

\* stop(): shutdown() ends serve_forever when there is a server; errors are
\* swallowed.
StopReceiver ==
    /\ receiver.pc = "returned"
    /\ receiver' = [receiver EXCEPT !.thread = FALSE]
    /\ ret' = [op |-> "stop"]
    /\ UNCHANGED <<outbox_jobs, deliveries, inbox_events, inbox_pushes, now, uuid, lock,
                   txn, threads, signing, flows, completed>>

NextStart ==
    \/ \E bind_ok \in BOOLEAN : StartReceiver(bind_ok)
    \/ \E req \in StartRequests : Serve(req)
    \/ StopReceiver

SpecStart == InitStart /\ [][NextStart]_vars

(***************************************************************************)
(* Two nodes: peer a submits jobs for peer b and pushes them over the      *)
(* network to b's receiver.  outbox_jobs and deliveries are a's store,     *)
(* inbox_pushes and inbox_events are b's; signing is the configuration of  *)
(* a's client, receiver that of b's receiver (mutual TLS off).  The other  *)
(* peers are not part of the model: a push to them gets any answer.        *)
(***************************************************************************)

\* make_document_event and make_summary_event: the events of a submitted
\* document, alone or with its summary.
DocumentEvent == EventObj(<<"e1">>, <<"DocumentAdded">>, PayloadObj("d1"))
SummaryEvent == EventObj(<<"e2">>, <<"ArtifactUpserted">>, PayloadObj("d1"))

SubmittedEventLists == {<<DocumentEvent>>, <<DocumentEvent, SummaryEvent>>}

\* What becomes of a request on the network: it reaches b and the answer
\* reaches a; it never reaches b; it reaches b and the answer is lost.
NetworkOutcomes == {"delivered", "lost", "answer_lost"}

\* The request b's handler sees for the body and headers push_events built.
PushedRequest(body, headers) ==
    [path |-> "/events/push", length_ok |-> TRUE, cn |-> None,
     sig |-> IF headers = <<>> THEN <<>> ELSE headers[1][2],
     alg |-> IF headers = <<>> THEN "" ELSE headers[2][2],
     raw |-> body, addr |-> "10.0.0.1"]

\* The response requests.post hands back for b's answer.
AnswerOf(net, code) ==
    IF net = "delivered"
    THEN [kind |-> "http", status_code |-> code, text |-> IF code = 200 THEN "ok" ELSE "error"]
    ELSE [kind |-> "exc", status_code |-> 0, text |-> "timeout"]

InitDeliver ==
    /\ EmptyStore
    /\ receiver \in {c \in ReceiverConfigs : ~c.require_client_cert}
    /\ threads = <<>>
    /\ signing \in SigningConfigs
    /\ flows = <<>>
    /\ completed = <<>>

\* The first half of the loop body of a sending thread, with b's receiver at
\* the other end: push_events, do_POST at b for a request that arrives, then
\* get_pending_or_failed_targets and the computation of attempt.
FlowDeliver(i, net) ==
    /\ flows[i].pc = "push"
    /\ Head(flows[i].todo).peer_id = "b"
    /\ SumPushes(DOMAIN completed) < MaxPushes
    /\ LET peer == Head(flows[i].todo)
           key == <<flows[i].job_id, peer.peer_id>>
           body == stable_json_bytes([events |-> flows[i].events])
           sh == SignHeaders(signing, body)
           b == DoPost(receiver, PushedRequest(body, sh.headers), inbox_pushes, inbox_events,
                       now, uuid)
           r == push_events(signing, peer, flows[i].events, AnswerOf(net, b.code))
       IN IF r.raised
          THEN /\ flows' = [flows EXCEPT ![i].pc = "raised", ![i].todo = <<>>]
               /\ ret' = [op |-> "push", net |-> "none", code |-> 0]
               /\ UNCHANGED <<completed, inbox_pushes, inbox_events, uuid>>
          ELSE /\ flows' = [flows EXCEPT
                              ![i].pc = "update",
                              ![i].res = Some(r),
                              ![i].attempt =
                                  Attempt(get_pending_or_failed_targets(flows[i].job_id),
                                          peer.peer_id)]
               /\ completed' = [completed EXCEPT ![key].pushes = @ + 1]
               /\ ret' = [op |-> "push", net |-> net, code |-> b.code]
               /\ inbox_pushes' = IF net = "lost" THEN inbox_pushes ELSE b.pushes
               /\ inbox_events' = IF net = "lost" THEN inbox_events ELSE b.events
               /\ uuid' = IF net = "lost" \/ b.pushes = inbox_pushes THEN uuid ELSE uuid + 1
    /\ UNCHANGED <<outbox_jobs, deliveries, now, lock, txn, threads, signing, receiver>>

NextDeliver ==
    \/ \E events \in SubmittedEventLists, dests \in DestLists : OnSubmit(events, dests)
    \/ \E i \in DOMAIN flows :
          \/ \E net \in NetworkOutcomes : FlowDeliver(i, net)
          \/ \E resp \in Responses :
                flows[i].pc = "push" /\ Head(flows[i].todo).peer_id # "b" /\ FlowPush(i, resp)
          \/ FlowUpdate(i)

SpecDeliver == InitDeliver /\ [][NextDeliver]_vars

(***************************************************************************)
(* The serving loop.  start() builds an HTTPServer and runs serve_forever  *)
(* in one thread; serve_forever accepts a connection and runs the handler  *)
(* for it to its end (BaseServer.process_request is synchronous) before it *)
(* accepts the next one.  A connection waits in the backlog of the         *)
(* listening socket until then.  do_POST blocks in rfile.read(length)      *)
(* until the client has sent the whole body.                               *)
(***************************************************************************)
Connections == {"c1", "c2", "c3"}

\* A connection no client has opened yet.
NotConnected == [pc |-> "none", req |-> None, body_sent |-> FALSE]

\* The requests the clients of this specification send.
ServedRequests ==
    {PostRequest(t, TRUE, None, [sig |-> "none", alg |-> ""], raw) :
        t \in {"/events/push", "/events"},
        raw \in {RawEmpty, RawBadJson,
                 RawObj("list", <<EventObj(<<"a">>, <<"D">>, PayloadObj("d1"))>>)}}

InitServe ==
    /\ EmptyStore
    /\ receiver = NoReceiver
    /\ threads = [c \in Connections |-> NotConnected]
    /\ signing = NoSigning
    /\ flows = <<>>
    /\ completed = <<>>

\* A client connects and sends the request line, the headers and, at once or
\* later, the body.
Connect(c, req, body_sent) ==
    /\ threads[c].pc = "none"
    /\ threads' = [threads EXCEPT ![c] =
          [pc |-> "queued", req |-> Some(req), body_sent |-> body_sent]]
    /\ UNCHANGED <<outbox_jobs, deliveries, inbox_events, inbox_pushes, now, uuid, ret,
                   lock, txn, signing, flows, completed, receiver>>

\* The client sends the rest of the body.
SendBody(c) ==
    /\ threads[c].pc \in {"queued", "handling"}
    /\ ~threads[c].body_sent
    /\ threads' = [threads EXCEPT ![c].body_sent = TRUE]
    /\ UNCHANGED <<outbox_jobs, deliveries, inbox_events, inbox_pushes, now, uuid, ret,
                   lock, txn, signing, flows, completed, receiver>>

\* serve_forever takes the connection and the handler starts on it; the
\* serving thread does this only between two handlers.
Accept(c) ==
    /\ threads[c].pc = "queued"
    /\ \A o \in Connections : threads[o].pc # "handling"
    /\ threads' = [threads EXCEPT ![c].pc = "handling"]
    /\ UNCHANGED <<outbox_jobs, deliveries, inbox_events, inbox_pushes, now, uuid, ret,
                   lock, txn, signing, flows, completed, receiver>>

\* The handler has the body: do_POST runs to its end and answers.
Finish(c) ==
    /\ threads[c].pc = "handling"
    /\ threads[c].body_sent
    /\ LET r == DoPost(receiver, threads[c].req[1], inbox_pushes, inbox_events, now, uuid) IN
         /\ inbox_pushes' = r.pushes
         /\ inbox_events' = r.events
         /\ uuid' = IF r.pushes = inbox_pushes THEN uuid ELSE uuid + 1
         /\ ret' = [op |-> "do_POST", code |-> r.code, req |-> threads[c].req[1]]
    /\ now' = now + 1
    /\ threads' = [threads EXCEPT ![c].pc = "done"]
    /\ UNCHANGED <<outbox_jobs, deliveries, lock, txn, signing, flows, completed, receiver>>

NextServe ==
    \E c \in Connections :
        \/ \E req \in ServedRequests, body_sent \in BOOLEAN : Connect(c, req, body_sent)
        \/ SendBody(c)
        \/ Accept(c)
        \/ Finish(c)

SpecServe == InitServe /\ [][NextServe]_vars

(***************************************************************************)
(* Construction of the FederationClient from the signing section of the    *)
(* YAML file and the environment, and the pushes of the client built.      *)
(***************************************************************************)

\* The signing section as load_config reads it: key_env is absent, empty or
\* the name of a variable.
SigningSections ==
    {[enabled |-> e, key_env |-> k, alg |-> a] :
        e \in BOOLEAN, k \in {None, Some(""), Some("HF_KEY")}, a \in {"sha256", "sha512"}}

\* The environment: each of the two variables is unset, empty or set.
Environments ==
    {[HF_KEY |-> a, HOSPITAL_FEDERATOR_HMAC_KEY |-> b] :
        a \in {None, Some(""), Some("k1")}, b \in {None, Some(""), Some("k2")}}

\* Faulty variant: only an unset variable counts as missing ("if key is None").
NotKeyNoneOnly(key) == key = None

\* "not key": None and the empty string.
NotKey(key) == key = None \/ key = Some("")

\* The key FederationClient.__init__ resolves: the named variable, else the
\* fixed fallback variable.
ResolveKey(cfg, env) ==
    LET named == IF cfg.key_env # None /\ cfg.key_env # Some("")
                 THEN env[cfg.key_env[1]] ELSE None
    IN IF NotKey(named) THEN env["HOSPITAL_FEDERATOR_HMAC_KEY"] ELSE named

\* FederationClient(signing): ValueError, or the client with its key.
NewFederationClient(cfg, env) ==
    IF ~cfg.enabled
    THEN [raised |-> FALSE,
          client |-> [enabled |-> FALSE, alg |-> cfg.alg, hmac_key |-> None]]
    ELSE IF NotKey(ResolveKey(cfg, env))
    THEN [raised |-> TRUE, client |-> NoSigning]
    ELSE [raised |-> FALSE,
          client |-> [enabled |-> TRUE, alg |-> cfg.alg, hmac_key |-> ResolveKey(cfg, env)]]

InitClient ==
    /\ EmptyStore
    /\ receiver = NoReceiver
    /\ threads = <<>>
    /\ signing = NoSigning
    /\ flows = <<>>
    /\ completed = <<>>

\* HospitalFederatorApp.__init__ builds the client once; a ValueError ends
\* the program.
Construct(cfg, env) ==
    /\ ret = NoCall
    /\ LET r == NewFederationClient(cfg, env) IN
         /\ ret' = [op |-> "FederationClient", cfg |-> cfg, env |-> env, raised |-> r.raised]
         /\ signing' = IF r.raised THEN signing ELSE r.client
    /\ UNCHANGED <<outbox_jobs, deliveries, inbox_events, inbox_pushes, now, uuid, lock,
                   txn, threads, flows, completed, receiver>>

\* A push of the client that was built.
ClientPush(peer, events, resp) ==
    /\ \/ ret.op = "FederationClient" /\ ~ret.raised
       \/ ret.op = "push_events"
    /\ ret' = [op |-> "push_events", cfg |-> ret.cfg, env |-> ret.env,
               raised |-> push_events(signing, peer, events, resp).raised]
    /\ UNCHANGED <<outbox_jobs, deliveries, inbox_events, inbox_pushes, now, uuid, lock,
                   txn, threads, signing, flows, completed, receiver>>

NextClient ==
    \/ \E cfg \in SigningSections, env \in Environments : Construct(cfg, env)
    \/ \E p \in PeerIds \ {SelfPeerId}, events \in JobEventLists, resp \in Responses :
          ClientPush(PeersById[p], events, resp)

SpecClient == InitClient /\ [][NextClient]_vars

(***************************************************************************)
(* Content addressing: make_document_id and                                *)
(* make_virtual_doc_id_for_summary, called one after the other on texts    *)
(* and sources.  Strings are strings, so that the concatenations are       *)
(* computed; a source is absent (None) or present.                         *)
(***************************************************************************)

\* The strings of at most n characters, each the letter a or a newline.
RECURSIVE Strings(_)
Strings(n) ==
    IF n = 0 THEN {""}
    ELSE Strings(n - 1) \cup {s \o c : s \in Strings(n - 1), c \in {"a", "\n"}}

\* The literal make_virtual_doc_id_for_summary puts first.
SummaryOnly == "summary-only:"

\* The source _on_submit builds: f"gui:{self_peer.peer_id}:{window_peer.peer_id}".
GuiSource == "gui:a:b"

DocTexts == Strings(MaxChars)

\* Source strings: short ones, the same after the literal, and the GUI's.
SourceStrings ==
    Strings(MaxSourceChars) \cup {SummaryOnly \o s : s \in Strings(MaxSourceChars)}
        \cup {GuiSource}

\* Optional[str]: None or a string.
DocSources == {None} \cup {Some(s) : s \in SourceStrings}

\* hashlib.sha256(data).hexdigest(): a hash without collisions, so that two
\* ids are equal exactly when the bytes hashed are.
sha256_hex(data) == <<"sha256", data>>

\* Faulty variant: the source is left out of the bytes hashed.
DocumentBlobTextOnly(text, source) == "\n" \o text

\* The bytes make_document_id hashes: (source or "") + "\n" + text.
DocumentBlob(text, source) == (IF source = None THEN "" ELSE source[1]) \o "\n" \o text

make_document_id(text, source) == sha256_hex(DocumentBlob(text, source))

\* Faulty variant: no distinguishing literal in front.
SummaryBlobNoPrefix(summary_text, source) == source \o "\n" \o summary_text

\* The bytes make_virtual_doc_id_for_summary hashes.
SummaryBlob(summary_text, source) == SummaryOnly \o source \o "\n" \o summary_text

make_virtual_doc_id_for_summary(summary_text, source) ==
    sha256_hex(SummaryBlob(summary_text, source))

\* A call as it is remembered when the next one is made.
Earlier(call) ==
    IF call.op \in {"make_document_id", "make_virtual_doc_id_for_summary"}
    THEN Some([op |-> call.op, text |-> call.text, source |-> call.source,
               blob |-> call.blob, id |-> call.id])
    ELSE None

\* Calls are compared in pairs: a behaviour makes one call and then another.
FirstOrSecond == IF Earlier(ret) = None THEN TRUE ELSE ret.prev = None

InitDocId ==
    /\ EmptyStore
    /\ receiver = NoReceiver
    /\ threads = <<>>
    /\ signing = NoSigning
    /\ flows = <<>>
    /\ completed = <<>>

MakeDocumentId(text, source) ==
    /\ FirstOrSecond
    /\ ret' = [op |-> "make_document_id", text |-> text, source |-> source,
               blob |-> DocumentBlob(text, source), id |-> make_document_id(text, source),
               prev |-> Earlier(ret)]
    /\ now' = now + 1
    /\ UNCHANGED <<outbox_jobs, deliveries, inbox_events, inbox_pushes, uuid, lock, txn,
                   threads, signing, flows, completed, receiver>>

MakeVirtualDocId(summary_text, source) ==
    /\ FirstOrSecond
    /\ ret' = [op |-> "make_virtual_doc_id_for_summary", text |-> summary_text,
               source |-> Some(source), blob |-> SummaryBlob(summary_text, source),
               id |-> make_virtual_doc_id_for_summary(summary_text, source),
               prev |-> Earlier(ret)]
    /\ now' = now + 1
    /\ UNCHANGED <<outbox_jobs, deliveries, inbox_events, inbox_pushes, uuid, lock, txn,
                   threads, signing, flows, completed, receiver>>

NextDocId ==
    \/ \E text \in DocTexts, source \in DocSources : MakeDocumentId(text, source)
    \/ \E summary_text \in DocTexts, source \in SourceStrings :
          MakeVirtualDocId(summary_text, source)

SpecDocId == InitDocId /\ [][NextDocId]_vars

(***************************************************************************)
(* Properties.                                                             *)
(***************************************************************************)

UniqueEventIds(tbl) == \A r1, r2 \in tbl : r1.event_id = r2.event_id => r1 = r2

\* C1 (SpecInbox): over any sequence of add_inbox_events calls the inbox
\* holds at most one row per event_id, and every call that returns, returns
\* the number of rows it added to the table.
C1_IdempotentInbox ==
    [][ /\ UniqueEventIds(inbox_events')
        /\ (ret'.op = "add_inbox_events" /\ ~ret'.raised) =>
              ret'.value = Cardinality(inbox_events') - Cardinality(inbox_events) ]_vars

\* C1 witness: a call that offered exactly one event returned 0 and the
\* inbox shows exactly one row (the event had been inserted by an earlier call).
C1_Witness ==
    /\ ret.op = "add_inbox_events"
    /\ ~ret.raised
    /\ ret.offered = 1
    /\ ret.value = 0
    /\ Cardinality(list_inbox_events) = 1

\* C2 (SpecReceiver): first writer wins: a stored inbox row is never changed
\* or removed by a later call or push, and no second row with its event_id appears.
C2_FirstWriterWins ==
    [][ /\ \A r \in inbox_events : r \in inbox_events'
        /\ UniqueEventIds(inbox_events') ]_vars

\* C2 witness: a push accepted after a row was stored carried that row's
\* event_id with another content, from another peer, and the row is as it was.
C2_Witness ==
    \E r \in inbox_events, p \in inbox_pushes :
        /\ p.received_at > r.received_at
        /\ p.from_peer_id # r.from_peer_id
        /\ \E i \in DOMAIN JsonLoads(p.body_json).events :
              LET ev == JsonLoads(p.body_json).events[i] IN
                /\ Strip(ev.event_id) = r.event_id
                /\ JsonDumps(ev) # r.payload_json

JobDeliveries(job_id) == {d \in deliveries : d.job_id = job_id}

\* C3 as stated (SpecOutbox): right after add_job returns, the job has as many
\* Delivery rows as the target list is long, all PENDING with attempts 0, and
\* get_pending_or_failed_targets returns that many.
C3_OneRowPerListEntry ==
    ret.op = "add_job" =>
        /\ Cardinality(JobDeliveries(ret.job_id)) = Len(ret.targets)
        /\ \A d \in JobDeliveries(ret.job_id) : d.status = "PENDING" /\ d.attempts = 0
        /\ Cardinality(get_pending_or_failed_targets(ret.job_id)) = Len(ret.targets)

\* C3 amended (SpecOutbox): right after add_job returns, the job has exactly
\* one Delivery row per distinct peer_id of the target list (N rows when the N
\* targets are distinct), all PENDING with attempts 0, and
\* get_pending_or_failed_targets returns exactly those targets.
C3_OneRowPerDistinctTarget ==
    ret.op = "add_job" =>
        /\ {d.target_peer_id : d \in JobDeliveries(ret.job_id)} = Range(ret.targets)
        /\ Cardinality(JobDeliveries(ret.job_id)) = Cardinality(Range(ret.targets))
        /\ \A d \in JobDeliveries(ret.job_id) : d.status = "PENDING" /\ d.attempts = 0
        /\ {t.target_peer_id : t \in get_pending_or_failed_targets(ret.job_id)} = Range(ret.targets)
        /\ Cardinality(get_pending_or_failed_targets(ret.job_id)) = Cardinality(Range(ret.targets))

\* C3 witness: add_job has returned for a list of two distinct targets.
C3_Witness ==
    /\ ret.op = "add_job"
    /\ Len(ret.targets) = 2
    /\ Cardinality(Range(ret.targets)) = 2
    /\ Cardinality(JobDeliveries(ret.job_id)) = 2

\* C4 (SpecOutbox): in every reachable state there is at most one Delivery
\* row per (job_id, target_peer_id).
C4_UniqueDelivery ==
    \A d1, d2 \in deliveries :
        (d1.job_id = d2.job_id /\ d1.target_peer_id = d2.target_peer_id) => d1 = d2

\* C4 witness: a job whose target list named a peer twice has been created
\* and update_delivery has written that peer's row.
C4_Witness ==
    /\ ret.op = "update_delivery"
    /\ \E j \in outbox_jobs :
          /\ j.job_id = ret.job_id
          /\ Len(j.targets_json) > Cardinality(Range(j.targets_json))
          /\ \E d \in deliveries :
                d.job_id = j.job_id /\ d.target_peer_id = ret.target /\ d.status = ret.status

\* The call of the delivery state transition property.
SentOnceCall ==
    /\ ret.op = "update_delivery"
    /\ ret.status = "SENT"
    /\ ret.attempts = 1
    /\ ret.last_error = None
    /\ ret.http = Some(200)
    /\ \E d \in deliveries : d.job_id = ret.job_id /\ d.target_peer_id = ret.target

\* C7 (SpecOutbox): after update_delivery(job, peer, SENT, 1, None, t, 200) on
\* an existing row, list_deliveries(job) shows the row with status SENT,
\* attempts 1, no last_error and last_http_status 200, and
\* get_pending_or_failed_targets(job) does not contain the peer.
C7_SentTransition ==
    SentOnceCall =>
        /\ \E i \in DOMAIN list_deliveries(ret.job_id) :
              LET d == list_deliveries(ret.job_id)[i] IN
                /\ d.target_peer_id = ret.target
                /\ d.status = "SENT"
                /\ d.attempts = 1
                /\ d.last_error = None
                /\ d.last_http_status = Some(200)
        /\ \A t \in get_pending_or_failed_targets(ret.job_id) : t.target_peer_id # ret.target

\* C7 witness: the call was made on a job with two rows; the other row is
\* still returned by get_pending_or_failed_targets.
C7_Witness ==
    /\ SentOnceCall
    /\ Len(list_deliveries(ret.job_id)) = 2
    /\ Cardinality(get_pending_or_failed_targets(ret.job_id)) = 1

\* C5 (SpecAddJob): a reader that was shown a job by list_jobs and then read
\* its Delivery rows (list_deliveries or get_pending_or_failed_targets), with
\* add_job calls running on other threads, was shown a row for every target
\* of the job.
C5_ReadersSeeWholeJobs ==
    \A t \in ThreadIds :
        (threads[t].pc = "idle" /\ threads[t].seen_job # None) =>
            threads[t].seen_targets = Range(threads[t].seen_job[1].targets_json)

\* C5 witness: a reader holds its observation of a job with two targets
\* while another thread is part-way through add_job (the job row and one of
\* two delivery rows inserted, nothing committed).
C5_Witness ==
    \E t, w \in ThreadIds :
        /\ t # w
        /\ threads[t].pc = "idle"
        /\ threads[t].seen_job # None
        /\ Cardinality(threads[t].seen_targets) = 2
        /\ threads[w].pc = "insert_delivery"
        /\ threads[w].inserted = 1
        /\ threads[w].todo # <<>>

\* C6 (SpecAddJob): when add_job has failed part-way and the exception has
\* reached the caller, the store holds neither the job row nor any Delivery
\* row of that job.
C6_FailedJobLeavesNothing ==
    \A t \in ThreadIds :
        threads[t].pc = "raised" =>
            /\ \A j \in outbox_jobs : j.job_id # threads[t].job[1].job_id
            /\ JobDeliveries(threads[t].job[1].job_id) = {}

\* C6 witness: the failure came after the job row and a delivery row had
\* been inserted, with a target still to go.
C6_Witness ==
    \E t \in ThreadIds :
        /\ threads[t].pc = "raised"
        /\ threads[t].inserted = 1
        /\ threads[t].todo # <<>>

\* The stored row of a (job, target) pair.
DeliveryOf(key) ==
    CHOOSE d \in deliveries : d.job_id = key[1] /\ d.target_peer_id = key[2]

\* No sending thread still has the (job, target) pair ahead of it or in hand.
Settled(key) ==
    \A i \in DOMAIN flows :
        Live(flows[i]) /\ flows[i].job_id = key[1] =>
            \A k \in DOMAIN flows[i].todo : flows[i].todo[k].peer_id # key[2]

\* C8 (SpecSend): over initial sends and resends of a job, concurrent ones
\* included, no step lowers the attempts stored for a (job, target) row.
C8_AttemptsNeverDecrease ==
    [][\A d \in deliveries : \A e \in deliveries' :
          (e.job_id = d.job_id /\ e.target_peer_id = d.target_peer_id) =>
              e.attempts >= d.attempts]_vars

\* C9 (SpecResend): the stored attempts never exceeds the number of pushes
\* completed for the (job, target) pair, and once the sending threads are
\* through with the pair it falls short of that number only if two threads
\* had the pair to do at the same time.
C9_UndercountOnlyWhenShared ==
    \A key \in DOMAIN completed :
        Settled(key) =>
            /\ DeliveryOf(key).attempts <= completed[key].pushes
            /\ DeliveryOf(key).attempts < completed[key].pushes => completed[key].shared

\* C9 witness: two resend threads of the same job have both finished, and a
\* target both of them pushed to has fewer attempts stored than pushes
\* completed.
C9_Witness ==
    \E i, j \in DOMAIN flows :
        /\ i # j
        /\ flows[i].kind = "work" /\ flows[j].kind = "work"
        /\ flows[i].pc = "done" /\ flows[j].pc = "done"
        /\ flows[i].job_id = flows[j].job_id
        /\ \E key \in DOMAIN completed :
              /\ key[1] = flows[i].job_id
              /\ Settled(key)
              /\ completed[key].shared
              /\ DeliveryOf(key).attempts < completed[key].pushes

\* C10 (SpecPush): push_events never raises past its boundary: for every
\* peer, event list and signing configuration the call returns its triple.
C10_PushEventsNeverRaises ==
    ret.op = "push_events" => ~ret.result.raised

\* C11 (SpecPush): every call of push_events issues exactly one request and
\* maps its outcome: a response with status >= 400 to (false, message, that
\* status), a transport error to (false, the error text, no status), a
\* response with status < 400 to (true, "ok", that status).
C11_OutcomeMapping ==
    ret.op = "push_events" =>
        LET r == ret.result
            p == ret.resp
        IN /\ ~r.raised
           /\ r.posts = 1
           /\ (p.kind = "http" /\ p.status_code >= 400) =>
                 (~r.ok /\ r.http = Some(p.status_code))
           /\ p.kind = "exc" => (~r.ok /\ r.msg = p.text /\ r.http = None)
           /\ (p.kind = "http" /\ p.status_code < 400) =>
                 (r.ok /\ r.msg = "ok" /\ r.http = Some(p.status_code))

\* C12 (SpecResend): the write-back after a push that returned a failure
\* leaves the row of that (job, target) FAILED with last_error the message
\* of the push, and the thread does not have that target ahead of it any
\* more: another push to it takes a new resend.
C12_FailedPushStaysFailed ==
    [][\A i \in DOMAIN flows :
          (flows[i].pc = "update" /\ flows'[i].pc # "update" /\ ~flows[i].res[1].ok) =>
              LET t == Head(flows[i].todo).peer_id IN
              /\ \E d \in deliveries' :
                    /\ d.job_id = flows[i].job_id
                    /\ d.target_peer_id = t
                    /\ d.status = "FAILED"
                    /\ d.last_error = Some(flows[i].res[1].msg)
              /\ \A k \in DOMAIN flows'[i].todo : flows'[i].todo[k].peer_id # t]_vars

\* C12 witness: all sending threads have ended, one push was made to the
\* target, it failed, and the row is FAILED with the error text.
C12_Witness ==
    /\ flows # <<>>
    /\ \A i \in DOMAIN flows : flows[i].pc = "done"
    /\ \E key \in DOMAIN completed :
          /\ completed[key].pushes = 1
          /\ DeliveryOf(key).status = "FAILED"
          /\ DeliveryOf(key).last_error = Some("timeout")
          /\ DeliveryOf(key).attempts = 1

\* C13 (SpecSend): a failure of one push never ends the sending loop: once
\* no sending thread of a job is running any more, every target of the job
\* has been pushed to and none of its rows is still PENDING.
C13_LoopReachesEveryTarget ==
    \A j \in outbox_jobs :
        (\A i \in DOMAIN flows : flows[i].job_id = j.job_id => ~Live(flows[i])) =>
            \A d \in JobDeliveries(j.job_id) : d.status # "PENDING"

\* C14 (SpecClient): with signing enabled and no non-empty value in the
\* named variable nor in the fallback variable, constructing the client
\* fails; and no client that pushes has signing enabled without a key.
C14_NoKeyNoClient ==
    /\ (/\ ret.op = "FederationClient"
        /\ ret.cfg.enabled
        /\ \/ ret.cfg.key_env \in {None, Some("")}
           \/ ret.env[ret.cfg.key_env[1]] \in {None, Some("")}
        /\ ret.env["HOSPITAL_FEDERATOR_HMAC_KEY"] \in {None, Some("")})
       => ret.raised
    /\ ret.op = "push_events" =>
          (signing.enabled => signing.hmac_key \notin {None, Some("")})

\* C14 witness: the named variable is set but empty, the fallback variable
\* is unset, and the construction has failed.
C14_Witness ==
    /\ ret.op = "FederationClient"
    /\ ret.raised
    /\ ret.cfg.enabled
    /\ ret.cfg.key_env = Some("HF_KEY")
    /\ ret.env["HF_KEY"] = Some("")
    /\ ret.env["HOSPITAL_FEDERATOR_HMAC_KEY"] = None

\* The step is a request handled by do_POST that left the store as it was.
NothingWritten == inbox_pushes' = inbox_pushes /\ inbox_events' = inbox_events

\* C15 (SpecPost): with mutual TLS required, a POST to /events/push on a
\* connection without a common name is answered 401, one with a common name
\* outside the allow-list (every configured peer but the node itself) 403,
\* and neither writes to the store.
C15_UnauthorizedPeerRejected ==
    [][(ret'.op = "do_POST" /\ receiver.require_client_cert
            /\ ret'.req.path = "/events/push") =>
          /\ ret'.req.cn = None => (ret'.code = 401 /\ NothingWritten)
          /\ (ret'.req.cn # None /\ ret'.req.cn[1] \notin PeerIds \ {SelfPeerId}) =>
                (ret'.code = 403 /\ NothingWritten)]_vars

\* C16 (SpecPost): every inbox_pushes and inbox_events row the receiver
\* writes carries the authenticated identity: with mutual TLS required, the
\* common name of the connection, which is in the allow-list; with mutual
\* TLS off, null.
C16_RowsTaggedWithPeer ==
    [][ret'.op = "do_POST" =>
          \A r \in (inbox_pushes' \ inbox_pushes) \cup (inbox_events' \ inbox_events) :
              IF receiver.require_client_cert
              THEN /\ r.from_peer_id = ret'.req.cn
                   /\ r.from_peer_id # None
                   /\ r.from_peer_id[1] \in PeerIds \ {SelfPeerId}
              ELSE r.from_peer_id = None]_vars

\* C16 witness: with mutual TLS off, a request that presents the common name
\* of a peer was answered 200 and its push and event rows are stored.
C16_Witness ==
    /\ ret.op = "do_POST"
    /\ ret.code = 200
    /\ ~receiver.require_client_cert
    /\ ret.req.cn = Some("b")
    /\ \E r \in inbox_pushes : r.received_at = now - 1 /\ r.from_peer_id = None
    /\ \E r \in inbox_events : r.received_at = now - 1 /\ r.from_peer_id = None

\* The request gets as far as the signature step: the path is the push
\* path, the body was read and the peer identity was accepted.
ReachesSignature(rc, req) ==
    /\ req.path = "/events/push"
    /\ req.length_ok
    /\ rc.require_client_cert => (req.cn # None /\ req.cn[1] \in PeerIds \ {SelfPeerId})

\* C17 (SpecPost): with signing enabled on the receiver, a request without
\* signature header, without a supported algorithm header, or with a
\* signature other than the HMAC of the raw body under the shared secret is
\* answered 401, and nothing is written.
C17_SignatureFailureIs401 ==
    [][(/\ ret'.op = "do_POST"
        /\ receiver.signing_enabled
        /\ ReachesSignature(receiver, ret'.req)
        /\ \/ ret'.req.sig = <<>>
           \/ ret'.req.alg \notin {"hmac-sha256", "HMAC-SHA256"}
           \/ ret'.req.sig # HmacHex(receiver.hmac_key[1], ret'.req.raw))
       => (ret'.code = 401 /\ NothingWritten)]_vars

\* C18 (SpecPost): a body signed by the client under secret K passes the
\* receiver's verification when the receiver holds K and those bytes arrive;
\* it is answered 401 when the receiver holds another secret, and when the
\* bytes that arrive are not the bytes that were signed.
C18_SignatureRoundTrip ==
    [][(/\ ret'.op = "do_POST"
        /\ receiver.signing_enabled
        /\ ReachesSignature(receiver, ret'.req)
        /\ ret'.req.alg = "hmac-sha256")
       => LET req == ret'.req
              K == receiver.hmac_key[1]
          IN /\ req.sig = ClientSignature(K, req.raw) => ret'.code # 401
             /\ (\E k \in {"k1", "k2"} \ {K} : req.sig = ClientSignature(k, req.raw))
                    => ret'.code = 401
             /\ (\E body \in PostBodies \ {req.raw} : req.sig = ClientSignature(K, body))
                    => ret'.code = 401]_vars

\* C18 witness: a list of events signed by the client under the receiver's
\* key was accepted and stored.
C18_Witness ==
    /\ ret.op = "do_POST"
    /\ receiver.signing_enabled
    /\ ret.code = 200
    /\ ret.req.raw.ev = "list"
    /\ ret.req.sig = ClientSignature(receiver.hmac_key[1], ret.req.raw)
    /\ \E r \in inbox_pushes : r.received_at = now - 1

\* The request gets as far as the parse step.
ReachesParse(rc, req) ==
    /\ ReachesSignature(rc, req)
    /\ rc.signing_enabled =>
          /\ req.alg \in {"hmac-sha256", "HMAC-SHA256"}
          /\ req.sig = HmacHex(rc.hmac_key[1], req.raw)

\* C19 (SpecPost): a JSON object without events member is accepted as an
\* empty list; one whose events member is not a list, whatever value it is,
\* is answered 400 and nothing is stored.
C19_EventsMustBeList ==
    [][(ret'.op = "do_POST" /\ ReachesParse(receiver, ret'.req)
            /\ ret'.req.raw.kind = "obj") =>
          /\ ret'.req.raw.ev = "absent" =>
                (/\ ret'.code = 200
                 /\ \E r \in inbox_pushes' \ inbox_pushes : r.events_count = 0)
          /\ ret'.req.raw.ev \in {"falsy", "truthy"} =>
                (ret'.code = 400 /\ NothingWritten)]_vars

\* C20 (SpecPost): a request to a path other than /events/push is answered
\* 404 and writes nothing, whatever its certificate, signature and body.
C20_OtherPathsNotFound ==
    [][(ret'.op = "do_POST" /\ ret'.req.path # "/events/push") =>
          (ret'.code = 404 /\ NothingWritten)]_vars

\* C20 witness: on a store that holds a push, a request from an allowed
\* peer with a valid signature and a list of events, sent to /events, was
\* answered 404.
C20_Witness ==
    /\ ret.op = "do_POST"
    /\ ret.code = 404
    /\ ret.req.path = "/events"
    /\ ret.req.cn = Some("b")
    /\ ret.req.raw.ev = "list"
    /\ ret.req.sig = ClientSignature("k1", ret.req.raw)
    /\ inbox_pushes # {}

\* C21 (SpecPost): every request that passes the identity, signature and
\* parse checks adds exactly one inbox_pushes row and removes none, also when
\* every event of it is already in the inbox; the row's events_count is the
\* length of the events list received.
C21_PushAlwaysRecorded ==
    [][(/\ ret'.op = "do_POST"
        /\ ReachesParse(receiver, ret'.req)
        /\ ret'.req.raw.kind \in {"empty", "obj"}
        /\ ret'.req.raw.ev \in {"absent", "list"})
       => /\ inbox_pushes \subseteq inbox_pushes'
          /\ Cardinality(inbox_pushes' \ inbox_pushes) = 1
          /\ \A r \in inbox_pushes' \ inbox_pushes :
                r.events_count = Len(ret'.req.raw.events)]_vars

\* C21 witness: the same one-event body was accepted twice: two push rows
\* with events_count 1, one event row.
C21_Witness ==
    /\ ret.op = "do_POST"
    /\ ret.code = 200
    /\ Cardinality(inbox_pushes) = 2
    /\ \A r \in inbox_pushes : r.events_count = 1 /\ r.body_json = JsonDumps(ret.req.raw)
    /\ Cardinality(inbox_events) = 1
    /\ \A r \in inbox_events : r.received_at < now - 1

\* A request every receiver configuration accepts: an allowed peer, the
\* client's signature under the receiver's key, one well-formed event.
GoodRequest ==
    PostRequest("/events/push", TRUE, Some("b"), [sig |-> "k1", alg |-> "hmac-sha256"],
                RawObj("list", <<EventObj(<<"a">>, <<"D">>, PayloadObj("d1"))>>))

\* The body fails in the parse step (not JSON, not an object) or in the store
\* step (an entry on which add_inbox_events raises).
FailsInParseOrStore(raw) ==
    \/ raw.kind \in {"badjson", "nonobj"}
    \/ /\ raw.ev = "list"
       /\ \E i \in DOMAIN raw.events :
             ~EntrySkipped(raw.events[i]) /\ EntryRaises(raw.events[i])

\* C22 (SpecPost): a request that fails in the parse or store step is
\* answered 500, and after any request answered 500 the receiver still
\* handles requests: the next good request is accepted, answered 200 and
\* stored.
C22_ErrorsArePerRequest ==
    /\ [][(ret'.op = "do_POST" /\ ReachesParse(receiver, ret'.req)
              /\ FailsInParseOrStore(ret'.req.raw)) => ret'.code = 500]_vars
    /\ []((ret.op = "do_POST" /\ ret.code = 500 /\ now < MaxPosts) =>
            ENABLED (/\ Post(GoodRequest)
                     /\ ret'.code = 200
                     /\ Cardinality(inbox_pushes' \ inbox_pushes) = 1
                     /\ HasEvent(inbox_events', <<"a">>)))

\* C22 witness: a request whose second event made the store raise was
\* answered 500 (its push row is there, no event of it is), and the request
\* after it was answered 200 and stored.
C22_Witness ==
    /\ ret.op = "do_POST"
    /\ ret.code = 200
    /\ \E r \in inbox_pushes :
          /\ r.received_at = now - 2
          /\ FailsInParseOrStore(JsonLoads(r.body_json))
    /\ \E r \in inbox_pushes : r.received_at = now - 1
    /\ inbox_events # {}
    /\ \A r \in inbox_events : r.received_at = now - 1

\* C23 (SpecStart): a receiver whose listen port is <= 0 never has a socket
\* or a serving thread, its start() does not raise (whatever the TLS
\* settings), and no request writes the inbox tables.
C23_DisabledReceiver ==
    receiver.port <= 0 =>
        /\ ~receiver.server
        /\ ~receiver.thread
        /\ receiver.pc # "raised"
        /\ inbox_pushes = {}
        /\ inbox_events = {}

\* C23 witness: start() has returned on a receiver with port 0 and no
\* certificate configured.
C23_Witness ==
    /\ receiver.port = 0
    /\ ~receiver.tls.certs
    /\ receiver.pc = "returned"
    /\ ret.op = "start"

\* C24 (SpecDeliver): with signing and mutual TLS off, once the one job a
\* submitted (a single DocumentAdded event, for b) has been pushed and the
\* request and its answer went through, b's store holds exactly one push row
\* with events_count 1 and exactly one event row, found under that event's
\* event_id with the sent event as its payload, and a's delivery row for b is
\* SENT with attempts 1.
C24_EndToEndDelivery ==
    (/\ ~signing.enabled
     /\ ~receiver.signing_enabled
     /\ ~receiver.require_client_cert
     /\ Len(flows) = 1
     /\ flows[1].pc = "done"
     /\ flows[1].events = <<DocumentEvent>>
     /\ ret.op = "push"
     /\ ret.net = "delivered")
    => /\ Cardinality(inbox_pushes) = 1
       /\ \A p \in inbox_pushes : p.events_count = 1
       /\ Cardinality(inbox_events) = 1
       /\ get_inbox_event_payload(DocumentEvent.event_id) # None
       /\ JsonLoads(get_inbox_event_payload(DocumentEvent.event_id)[1]) = DocumentEvent
       /\ \A d \in deliveries :
             (d.job_id = flows[1].job_id /\ d.target_peer_id = "b") =>
                (d.status = "SENT" /\ d.attempts = 1)
       /\ \E d \in deliveries : d.job_id = flows[1].job_id /\ d.target_peer_id = "b"

\* C24 witness: the scenario has run to its end.
C24_Witness ==
    /\ ~signing.enabled
    /\ ~receiver.signing_enabled
    /\ Len(flows) = 1
    /\ flows[1].pc = "done"
    /\ flows[1].events = <<DocumentEvent>>
    /\ ret.op = "push"
    /\ ret.net = "delivered"
    /\ ret.code = 200
    /\ \E d \in deliveries : d.status = "SENT"
    /\ inbox_events # {}

\* C25 (SpecServe): requests are handled concurrently: while the handling
\* of one request has begun and not finished, the handling of a request that
\* waits can begin.
C25_RequestsServedConcurrently ==
    \A c1, c2 \in Connections :
        (threads[c1].pc = "handling" /\ threads[c2].pc = "queued") => ENABLED Accept(c2)

\* C26 (SpecInboxLock): with add_inbox_events called concurrently on
\* overlapping event_ids, the inbox has one row per event_id, the counts the
\* calls have returned sum to the number of rows, at most one call has an
\* open transaction, and the committed table does not change under it.
C26_InboxCallsSerialized ==
    /\ UniqueEventIds(inbox_events)
    /\ threads["t1"].returned + threads["t2"].returned = Cardinality(inbox_events)
    /\ Cardinality({t \in ThreadIds : threads[t].conn # None}) <= 1
    /\ \A t \in ThreadIds :
          threads[t].conn # None =>
             (lock = Some(t) /\ threads[t].conn[1].base = inbox_events)

\* C26 witness: both threads have inserted (each call returned 1 or more),
\* and a call that offers an id already stored is in its transaction, having
\* counted nothing for it.
C26_Witness ==
    /\ threads["t1"].returned > 0
    /\ threads["t2"].returned > 0
    /\ \E t \in ThreadIds :
          /\ threads[t].conn # None
          /\ threads[t].todo = <<>>
          /\ threads[t].conn[1].changes = 0

\* C27 (SpecResend): in every state, whatever add_job, update_delivery, send
\* and resend steps have been taken since the job was created,
\* get_job_events returns for a job the list its send_job thread was handed
\* at creation (the thread keeps it), and every sending thread of the job,
\* resends included, holds and pushes exactly that list.
C27_JobEventsImmutable ==
    \A i \in DOMAIN flows :
        /\ \E j \in outbox_jobs : j.job_id = flows[i].job_id
        /\ flows[i].events \in JobEventLists
        /\ get_job_events(flows[i].job_id) = flows[i].events
        /\ \A k \in DOMAIN flows :
              (flows[k].kind = "send_job" /\ flows[k].job_id = flows[i].job_id) =>
                  flows[i].events = flows[k].events

\* C27 witness: a resend thread has pushed the job's events after the row of
\* its target had been written by an earlier attempt.
C27_Witness ==
    \E i \in DOMAIN flows :
        /\ flows[i].kind = "work"
        /\ flows[i].pc = "update"
        /\ flows[i].events # <<>>
        /\ \E d \in deliveries : d.job_id = flows[i].job_id /\ d.status = "FAILED"

\* C28 (SpecResend): get_pending_or_failed_targets returns exactly the rows of
\* the job that are PENDING or FAILED, and a resend that starts is for a known
\* job with stored events and goes to targets whose row is PENDING or FAILED
\* at that moment: none whose row is SENT, not the self peer.
C28_ResendOnlyPendingOrFailed ==
    \A job_id \in {j.job_id : j \in outbox_jobs} \cup {uuid} :
        LET open == {d \in deliveries :
                        d.job_id = job_id /\ d.status \in {"PENDING", "FAILED"}}
        IN /\ {<<p.target_peer_id, p.target_url, p.status, p.attempts>> :
                    p \in get_pending_or_failed_targets(job_id)}
              = {<<d.target_peer_id, d.target_url, d.status, d.attempts>> : d \in open}
           /\ \A targets \in SeqsUpTo({PeersById[p] : p \in PeerIds}, MaxTargets) :
                 ENABLED ResendSelected(job_id, targets) =>
                    /\ \E j \in outbox_jobs : j.job_id = job_id /\ JsonLoads(j.events_json) # <<>>
                    /\ \A k \in DOMAIN targets :
                          /\ targets[k].peer_id # SelfPeerId
                          /\ \E d \in open : d.target_peer_id = targets[k].peer_id

\* C28 witness: a resend thread was started for c alone while the row of b
\* is SENT.
C28_Witness ==
    \E i \in DOMAIN flows :
        /\ flows[i].kind = "work"
        /\ flows[i].pc = "push"
        /\ flows[i].todo = <<PeersById["c"]>>
        /\ \E d \in deliveries :
              d.job_id = flows[i].job_id /\ d.target_peer_id = "b" /\ d.status = "SENT"
        /\ \E d \in deliveries :
              d.job_id = flows[i].job_id /\ d.target_peer_id = "c" /\ d.status = "FAILED"


\* The rows of the deliveries table that the WHERE clause of the
\* update_delivery call just returned selects.
Matching(tbl) == {d \in tbl : d.job_id = ret'.job_id /\ d.target_peer_id = ret'.target}

\* C29 (SpecOutbox): an update_delivery call on an existing row leaves in its
\* place one row with the same delivery_id, job_id, target_peer_id and
\* target_url and with exactly the supplied status, attempts, last_error,
\* last_attempt_at and last_http_status; every other Delivery row, the job
\* rows and the inbox tables are unchanged.
C29_UpdateOverwritesOneRow ==
    [][(ret'.op = "update_delivery" /\ now' # now /\ Matching(deliveries) # {}) =>
          /\ Cardinality(Matching(deliveries)) = 1
          /\ \A d \in Matching(deliveries) :
                Matching(deliveries') =
                    {[delivery_id |-> d.delivery_id, job_id |-> d.job_id,
                      target_peer_id |-> d.target_peer_id, target_url |-> d.target_url,
                      status |-> ret'.status, attempts |-> ret'.attempts,
                      last_error |-> ret'.last_error, last_attempt_at |-> Some(now),
                      last_http_status |-> ret'.http]}
          /\ deliveries' \ Matching(deliveries') = deliveries \ Matching(deliveries)
          /\ UNCHANGED <<outbox_jobs, inbox_events, inbox_pushes>>]_vars

\* C29 witness: the row of b of a job with two rows has been written as
\* FAILED with the attempts number 0 it was given, after an earlier write
\* (the clock is past 2); the row of c is still as add_job created it.
C29_Witness ==
    /\ ret.op = "update_delivery"
    /\ ret.status = "FAILED"
    /\ ret.attempts = 0
    /\ ret.target = "b"
    /\ now > 2
    /\ \E d \in deliveries :
          /\ d.job_id = ret.job_id /\ d.target_peer_id = "b"
          /\ d.status = "FAILED" /\ d.attempts = 0 /\ d.last_attempt_at = Some(now - 1)
    /\ \E d \in deliveries :
          /\ d.job_id = ret.job_id /\ d.target_peer_id = "c"
          /\ d.status = "PENDING" /\ d.last_attempt_at = None

\* C30 as stated (SpecOutbox): an update_delivery call that returns normally
\* has written a Delivery row: the (job_id, target_peer_id) it was called for
\* has a row, and the row carries the supplied values.
C30_UpdateNeverDropped ==
    [][(ret'.op = "update_delivery" /\ now' # now /\ ~ret'.raised) =>
          \E d \in deliveries' :
              /\ d.job_id = ret'.job_id
              /\ d.target_peer_id = ret'.target
              /\ d.status = ret'.status
              /\ d.attempts = ret'.attempts]_vars


\* An entry with an event_id and a payload the loop can read.
WellFormed(ev) == ~EntrySkipped(ev) /\ ~EntryRaises(ev)

\* C31 as stated (SpecInbox): whatever the batch, add_inbox_events returns,
\* every well-formed entry of the batch has a row afterwards, and the value
\* returned is the number of rows inserted.
C31_MalformedEntriesSkipped ==
    [][\A events \in Batches, f \in FromPeerIds :
          AddInboxEvents(events, f) =>
              /\ ~ret'.raised
              /\ \A i \in DOMAIN events :
                    WellFormed(events[i]) => HasEvent(inbox_events', Strip(events[i].event_id))
              /\ ret'.value = Cardinality(inbox_events') - Cardinality(inbox_events)]_vars


\* The two calls of a behaviour, when both are of make_document_id.
TwoDocumentIds ==
    /\ ret.op = "make_document_id"
    /\ ret.prev # None
    /\ ret.prev[1].op = "make_document_id"

\* C32 as stated (SpecDocId): two make_document_id calls with equal
\* arguments give the same id, and two calls that differ in one argument
\* alone hash different bytes, an absent source and an empty one included.
C32_EitherArgumentChangesId ==
    TwoDocumentIds =>
        LET p == ret.prev[1] IN
          /\ (ret.text = p.text /\ ret.source = p.source) => ret.id = p.id
          /\ (ret.text # p.text /\ ret.source = p.source) => ret.blob # p.blob
          /\ (ret.text = p.text /\ ret.source # p.source) => ret.blob # p.blob

\* The string a source stands for: "" when it is absent.
SourceText(source) == IF source = None THEN "" ELSE source[1]

\* C32 amended (SpecDocId): two make_document_id calls with equal arguments
\* give the same id; an absent source and an empty one give the same id;
\* two calls that differ in the text alone, or in the source alone other than
\* as absent against empty, hash different bytes and give different ids.
C32_DocumentIdDeterminism ==
    TwoDocumentIds =>
        LET p == ret.prev[1] IN
          /\ (ret.text = p.text /\ SourceText(ret.source) = SourceText(p.source)) =>
                ret.id = p.id
          /\ (ret.text # p.text /\ ret.source = p.source) =>
                ret.blob # p.blob /\ ret.id # p.id
          /\ (ret.text = p.text /\ SourceText(ret.source) # SourceText(p.source)) =>
                ret.blob # p.blob /\ ret.id # p.id

\* C32 witness: the same text with two sources that are both present, one of
\* them ending in a newline; the ids differ.
C32_Witness ==
    /\ TwoDocumentIds
    /\ ret.text = ret.prev[1].text
    /\ ret.source = Some("\n")
    /\ ret.prev[1].source = Some("")
    /\ ret.id # ret.prev[1].id

\* The two calls of a behaviour, when the first is of make_document_id and
\* the second of make_virtual_doc_id_for_summary.
DocumentThenVirtual ==
    /\ ret.op = "make_virtual_doc_id_for_summary"
    /\ ret.prev # None
    /\ ret.prev[1].op = "make_document_id"

\* C33 as stated (SpecDocId): the bytes hashed for a virtual id differ from
\* the bytes hashed for a document id, whatever the texts and sources.
C33_VirtualNeverCollides ==
    DocumentThenVirtual => ret.blob # ret.prev[1].blob

\* s begins with the literal of the virtual ids.
BeginsSummaryOnly(s) ==
    Len(s) >= Len(SummaryOnly) /\ SubSeq(s, 1, Len(SummaryOnly)) = SummaryOnly

\* C33 amended (SpecDocId): the bytes hashed for a virtual id differ from the
\* bytes hashed for the document id of every text and every source that does
\* not begin with "summary-only:" (the sources _on_submit builds begin with
\* "gui:"), and so do the ids.
C33_VirtualApartFromDocuments ==
    (DocumentThenVirtual /\ ~BeginsSummaryOnly(SourceText(ret.prev[1].source))) =>
        ret.blob # ret.prev[1].blob /\ ret.id # ret.prev[1].id

\* C33 witness: a document and a summary sent without it, with the same text
\* and the source of the GUI.
C33_Witness ==
    /\ DocumentThenVirtual
    /\ ret.text = ret.prev[1].text
    /\ ret.source = Some(GuiSource)
    /\ ret.prev[1].source = Some(GuiSource)
    /\ ret.id # ret.prev[1].id


\* The request fails the identity check of a receiver that requires a client
\* certificate.
Unauthenticated(rc, req) ==
    rc.require_client_cert /\ (req.cn = None \/ req.cn[1] \notin PeerIds \ {SelfPeerId})

\* The request fails the signature check of a receiver that verifies
\* signatures.
BadlySigned(rc, req) ==
    /\ rc.signing_enabled
    /\ rc.hmac_key # None
    /\ \/ req.alg \notin {"hmac-sha256", "HMAC-SHA256"}
       \/ req.sig # HmacHex(rc.hmac_key[1], req.raw)

\* C34 as stated (SpecPost): the first failing check decides the answer:
\* another path is answered 404; on the path, a request without a permitted
\* identity is answered 401 (no common name) or 403, an identified request
\* with a bad signature 401; none of these is answered 200, 400 or 500 and
\* none writes to the store.
C34_FirstFailingCheckDecides ==
    [][ret'.op = "do_POST" =>
          LET req == ret'.req IN
            /\ req.path # "/events/push" => (ret'.code = 404 /\ NothingWritten)
            /\ (req.path = "/events/push" /\ Unauthenticated(receiver, req)) =>
                  /\ ret'.code = IF req.cn = None THEN 401 ELSE 403
                  /\ NothingWritten
            /\ (req.path = "/events/push" /\ ~Unauthenticated(receiver, req)
                    /\ BadlySigned(receiver, req)) =>
                  (ret'.code = 401 /\ NothingWritten)]_vars


\* C35 (SpecDeliver): whenever the Delivery row of a job for b, which runs
\* the receiver, is SENT, b's store holds a push row with the body that was
\* pushed (the events of the job, and their number) and an event row for
\* every event of the job whose event_id is not blank.
C35_SentImpliesReceipt ==
    \A d \in deliveries :
        (d.target_peer_id = "b" /\ d.status = "SENT") =>
            LET evs == get_job_events(d.job_id) IN
              /\ \E p \in inbox_pushes :
                    /\ JsonLoads(p.body_json) = stable_json_bytes([events |-> evs])
                    /\ p.events_count = Len(evs)
              /\ \A k \in DOMAIN evs :
                    Strip(evs[k].event_id) # <<>> =>
                        /\ HasEvent(inbox_events, Strip(evs[k].event_id))
                        /\ get_inbox_event_payload(Strip(evs[k].event_id)) =
                              Some(JsonDumps(evs[k]))

\* C35 witness: a job of two events for b and c; the row of b is SENT, both
\* events are in b's inbox, and the row of c is FAILED.
C35_Witness ==
    \E d, e \in deliveries :
        /\ d.job_id = e.job_id
        /\ d.target_peer_id = "b" /\ d.status = "SENT"
        /\ e.target_peer_id = "c" /\ e.status = "FAILED"
        /\ Len(get_job_events(d.job_id)) = 2
        /\ Cardinality(inbox_events) = 2
        /\ Cardinality(inbox_pushes) = 1


\* A push is made in this step to the target of the row d: push_events
\* returns to a thread that has that (job, target) at the head of its list.
PushedTo(d) ==
    \E i \in DOMAIN flows :
        /\ flows[i].pc = "push"
        /\ flows'[i].pc = "update"
        /\ flows[i].job_id = d.job_id
        /\ Head(flows[i].todo).peer_id = d.target_peer_id

\* C36 as stated (SpecSend): once the row of a (job, target) is SENT, no
\* step of a send or resend, concurrent ones included, gives it another
\* status or pushes to that target again.
C36_SentIsTerminal ==
    [][\A d \in deliveries :
          d.status = "SENT" =>
              /\ \A e \in deliveries' :
                    (e.job_id = d.job_id /\ e.target_peer_id = d.target_peer_id) =>
                        e.status = "SENT"
              /\ ~PushedTo(d)]_vars


\* C37 as stated (SpecResend): every Delivery row has one of the three
\* statuses, and it is PENDING exactly when its attempts is 0 and no push to
\* its (job, target) has completed.
C37_PendingIffNeverPushed ==
    \A key \in DOMAIN completed :
        LET d == DeliveryOf(key) IN
          /\ d.status \in {"PENDING", "SENT", "FAILED"}
          /\ d.status = "PENDING" <=> (d.attempts = 0 /\ completed[key].pushes = 0)

\* The threads that hold the result of a push to the (job, target) pair and
\* have not yet called update_delivery with it.
InHand(key) ==
    {i \in DOMAIN flows :
        /\ flows[i].pc = "update"
        /\ flows[i].job_id = key[1]
        /\ Head(flows[i].todo).peer_id = key[2]}

\* C37 amended (SpecResend): every Delivery row has one of the three
\* statuses; it is PENDING exactly when its attempts is 0, and exactly when
\* every push completed for its (job, target) is one whose result a sending
\* thread still holds, update_delivery not yet called; and no step returns a
\* row to PENDING once it has left it.
C37_PendingUntilWrittenBack ==
    /\ [](\A key \in DOMAIN completed :
            LET d == DeliveryOf(key) IN
              /\ d.status \in {"PENDING", "SENT", "FAILED"}
              /\ d.status = "PENDING" <=> d.attempts = 0
              /\ d.status = "PENDING" <=> completed[key].pushes = Cardinality(InHand(key)))
    /\ [][\A d \in deliveries : \A e \in deliveries' :
            (e.job_id = d.job_id /\ e.target_peer_id = d.target_peer_id
                /\ d.status # "PENDING") => e.status # "PENDING"]_vars

\* C37 witness: the row of b is FAILED after two attempts, and the row of c
\* is still PENDING although a push to c has completed: the thread has the
\* result and has not written it.
C37_Witness ==
    \E key, other \in DOMAIN completed :
        /\ key[1] = other[1]
        /\ DeliveryOf(key).status = "FAILED"
        /\ DeliveryOf(key).attempts = 2
        /\ DeliveryOf(other).status = "PENDING"
        /\ completed[other].pushes = 1
        /\ Cardinality(InHand(other)) = 1


\* C38 (SpecResend): in every reachable state a SENT row has no last_error
\* and an HTTP status below 400; a FAILED row has a last_error and either no
\* HTTP status or one of at least 400; a PENDING row has no last_error, no
\* last_attempt_at and no HTTP status.
C38_OutcomeFieldsConsistent ==
    \A d \in deliveries :
        /\ d.status = "SENT" =>
              /\ d.last_error = None
              /\ d.last_http_status # None
              /\ d.last_http_status[1] < 400
              /\ d.last_attempt_at # None
        /\ d.status = "FAILED" =>
              /\ d.last_error # None
              /\ d.last_http_status = None \/ d.last_http_status[1] >= 400
              /\ d.last_attempt_at # None
        /\ d.status = "PENDING" =>
              /\ d.last_error = None
              /\ d.last_attempt_at = None
              /\ d.last_http_status = None

\* C38 witness: a job whose row of b went from FAILED on HTTP 500 to SENT by
\* a resend, and whose row of c is FAILED on a transport error.
C38_Witness ==
    \E d, e \in deliveries :
        /\ d.job_id = e.job_id
        /\ d.target_peer_id = "b" /\ d.status = "SENT" /\ d.attempts = 2
        /\ d.last_http_status = Some(200)
        /\ e.target_peer_id = "c" /\ e.status = "FAILED"
        /\ e.last_error = Some("timeout") /\ e.last_http_status = None


\* Every entry of the push row's events list that has an event_id (not blank)
\* has an event row under it.
Accompanied(p) ==
    LET evs == EventsOf(JsonLoads(p.body_json)) IN
      \A k \in DOMAIN evs :
          (evs[k].isdict /\ Strip(evs[k].event_id) # <<>>) =>
              HasEvent(inbox_events, Strip(evs[k].event_id))

\* C39 as stated (SpecPost): once a request has been answered, every push
\* row of the store is accompanied by the event rows of its entries, and a
\* request answered 500 has written neither a push row nor an event row.
C39_PushAndEventsTogether ==
    /\ [](ret.op = "do_POST" => \A p \in inbox_pushes : Accompanied(p))
    /\ [][(ret'.op = "do_POST" /\ ret'.code = 500) => NothingWritten]_vars


\* C40 as stated (SpecSequential): with at most one sending thread of a job
\* at a time, the attempts of every Delivery row is the number of pushes
\* completed for its (job, target), and a row with completed pushes is SENT
\* or FAILED.
C40_AttemptsCountPushes ==
    \A key \in DOMAIN completed :
        /\ DeliveryOf(key).attempts = completed[key].pushes
        /\ completed[key].pushes > 0 => DeliveryOf(key).status \in {"SENT", "FAILED"}

\* Thread i writes back the result of its push to the (job, target) pair in
\* this step.
WritesBack(i, key) == i \in InHand(key) /\ flows'[i].pc # "update"

\* C40 amended (SpecSequential): with at most one sending thread of a job at
\* a time, the attempts of every Delivery row is the number of pushes
\* completed for its (job, target) whose result has been written back (at
\* most one has not, the one the running thread holds); the write-back sets
\* attempts to the number of pushes completed and the status to the outcome
\* of the push just made, SENT if it succeeded and FAILED otherwise; and the
\* row changes in no other step.
C40_LedgerFollowsPushes ==
    /\ [](\A key \in DOMAIN completed :
            /\ Cardinality(InHand(key)) <= 1
            /\ DeliveryOf(key).attempts = completed[key].pushes - Cardinality(InHand(key)))
    /\ [][\A key \in DOMAIN completed :
            LET d == DeliveryOf(key)
                e == CHOOSE r \in deliveries' :
                        r.job_id = key[1] /\ r.target_peer_id = key[2]
            IN IF \E i \in DOMAIN flows : WritesBack(i, key)
               THEN \A i \in DOMAIN flows :
                       WritesBack(i, key) =>
                           /\ e.attempts = completed[key].pushes
                           /\ e.status = IF flows[i].res[1].ok THEN "SENT" ELSE "FAILED"
               ELSE e = d]_vars

\* C40 witness: after the send and a resend, each finished, the row of b has
\* attempts 2 for two completed pushes and is SENT; the first push had
\* failed.
C40_Witness ==
    \E key \in DOMAIN completed :
        /\ key[2] = "b"
        /\ completed[key].pushes = 2
        /\ InHand(key) = {}
        /\ DeliveryOf(key).attempts = 2
        /\ DeliveryOf(key).status = "SENT"
        /\ \E i, j \in DOMAIN flows :
              /\ flows[i].kind = "send_job" /\ flows[j].kind = "work"
              /\ flows[i].job_id = key[1] /\ flows[j].job_id = key[1]
              /\ flows[i].pc = "done" /\ flows[j].pc = "done"

====
